---- MODULE Spec2Model ----
(***************************************************************************)
(* The topic store of pipeline/topic_db.py: the topics and activity tables *)
(* of topics.db, the CRUD helpers that write them and the read-only views  *)
(* computed from them.                                                     *)
(* _parse_json of pipeline/topics_route.py, dispatch of pipeline/actions.py *)
(* and the scheduling action of pipeline/calendar_from_texts.py follow.    *)
(*                                                                         *)
(* topics[i] is the row with id = i (INTEGER PRIMARY KEY, rows are never   *)
(* deleted, so ids are 1..Len(topics)); activity[i] is the activity row    *)
(* with id i.  A helper is called (call holds its name and arguments),     *)
(* runs as one step (last holds its name and the return path it took, ret  *)
(* the id it returned) and its caller then drops the result.  route is the *)
(* frame of route_all in pipeline/topics_route.py, one reconciliation pass *)
(* over the store, with the calls it has made to the oracle.  parse is the  *)
(* frame of _parse_json, disp the frame of dispatch and of the handler it  *)
(* runs, calendar the events of the calendar the scheduling action writes. *)
(* main is the frame of main and run_pipeline in                           *)
(* pipeline/topics_pipeline.py, watermark the time in the watermark file   *)
(* and now the clock, in days.                                             *)
(***************************************************************************)
EXTENDS Integers, Sequences, FiniteSets

VARIABLES topics, activity, call, last, ret, route, parse, disp, calendar,
          main, watermark, now

vars == <<topics, activity, call, last, ret, route, parse, disp, calendar,
          main, watermark, now>>

\* The frames, the calendar, the watermark file and the clock, which the store
\* helpers and route_all do not touch.
others == <<parse, disp, calendar, main, watermark, now>>

(* ------------------------------- bounds -------------------------------- *)

\* Most topics and most activity rows in a store of Spec.
MaxTopics == 2

MaxActivity == 2

\* Most topics and most activity rows in a store of SpecScores.
MaxScoreTopics == 3

MaxScoreActivity == 2

\* Most topics in a store of SpecTree.
MaxTreeTopics == 3

\* Most topics route_all finds in the store of SpecRoute.
MaxRouteTopics == 2

\* Most entries of "renames" in a parsed response.
MaxRenames == 2

\* Most entries of "moves", of "existing_topics" and of "new_topics".
MaxEntries == 1

\* Most topics in a store of SpecOutput: a root and three siblings under it.
MaxOutputTopics == 4

\* Most pieces in a response text of SpecParse.
MaxPieces == 6

\* Most runs of main in a behaviour of SpecMain.
MaxRuns == 2

\* Most entries of "renames" in a parsed response of SpecMain.
MaxMainRenames == 0

\* Most actions in the list dispatch is given in SpecDispatch.
MaxActions == 2

\* Most flags in the value of an output key.
MaxFlags == 1

\* Most events in the reply of the validation call.
MaxReplyEvents == 1

\* Most events ever put on the calendar of SpecCalendar.
MaxCalendarEvents == 2

\* Most hold prefixes in a title the validation call names.
MaxPrefixes == 1

(* --------------------------- values of fields -------------------------- *)

\* Python None / SQL NULL in an id column (rowids start at 1).
NoId == 0

\* Python None / SQL NULL in a text column or a text argument.
None == "<None>"

\* The slugs of the model in BINARY collation order (ORDER BY t.name):
\* the empty string, then upper case, then lower case.
SlugOrder == <<"", "A", "a", "b">>

\* The slugs SpecTree draws from.
TreeSlugs == {SlugOrder[i] : i \in 1..Len(SlugOrder)}

\* The slugs Spec and SpecScores draw from.
Slugs == {"", "a", "b"}

\* A parent_name argument: a slug or None.
ParentArgs == Slugs \cup {None}

TreeParentArgs == TreeSlugs \cup {None}

\* A summary argument or column: None, the empty string or a text.
Summaries == {None, "", "s"}

\* A display_name argument: None or a label that is no slug.
DisplayNames == {None, "A label"}

\* Python truthiness of a text argument: None and "" are falsy.
Truthy(x) == x # None /\ x # ""

\* The half-life in days (days / 14.0).
HalfLife == 14

\* The score 1.0 in the fixed-point unit of the model: 0.1 and the weights of
\* activity aged whole half-lives are whole numbers of units, and sums of
\* such weights are exact in floating point too.
ScoreUnit == 4 * 10

\* DECAY_THRESHOLD = 0.1
DECAY_THRESHOLD == ScoreUnit \div 10

\* Python None as an activity_date argument.
NoDate == 0 - 1

\* activity_date arguments: None (the column default CURRENT_TIMESTAMP, age 0)
\* or a timestamp one half-life old.
DateArgs == {NoDate, HalfLife}

Sources == {"all"}

Contexts == {"note"}

TopicIds(T) == 1..Len(T)

(* ------------------------------ lookups -------------------------------- *)

\* SELECT id FROM topics WHERE name = ? ; fetchone, NoId when no row.
get_topic_id(T, name) ==
    IF \E i \in TopicIds(T) : T[i].name = name
    THEN CHOOSE i \in TopicIds(T) :
            /\ T[i].name = name
            /\ \A j \in TopicIds(T) : T[j].name = name => i <= j
    ELSE NoId

(* --------------------------- store operations -------------------------- *)

\* The parsed response {}: no field is of a wrong shape, every list is empty.
EmptyResult ==
    [bad |-> {}, renames |-> <<>>, moves |-> <<>>, existing_topics |-> <<>>,
     new_topics |-> <<>>]

\* No pass is running: route_all has not been called.
NoPass ==
    [pc |-> "idle", activity_date |-> NoDate, prompt |-> <<>>, tries |-> 0,
     oracle |-> <<>>, parsed |-> FALSE, result |-> EmptyResult, k |-> 0,
     updated_count |-> 0, calls |-> <<>>, exc |-> None, at |-> "idle",
     returned |-> EmptyResult, topics0 |-> <<>>, activity0 |-> <<>>]

NoCall == [op |-> "none"]

NoLast == [op |-> "none", path |-> "none"]

\* _parse_json has not been called.
NoParse == [pc |-> "idle", text |-> <<>>, raised |-> FALSE, value |-> {}]

\* The output keys of the actions of the model.
Keys == {"scheduling", "notes"}

\* A key of the oracle result: absent, or present with a list of flags.
Absent == [present |-> FALSE, value |-> <<>>]

\* The result {}.
NoResult == [routing |-> FALSE, fields |-> [key \in Keys |-> Absent]]

\* dispatch has not been called.
NoDispatch ==
    [pc |-> "idle", actions |-> <<>>, result |-> NoResult, i |-> 0, log |-> <<>>,
     exc |-> None, flags |-> <<>>, j |-> 0, tries |-> 0, events |-> <<>>, k |-> 0,
     expiries |-> 0]

\* main is not running.
NoMain ==
    [pc |-> "idle", dry_run |-> FALSE, date |-> 0 - 1, since |-> 0, until |-> 0,
     loaded |-> 0 - 1, actions |-> <<>>, exc |-> None, at |-> "idle"]

Init ==
    /\ topics = <<>>
    /\ activity = <<>>
    /\ call = NoCall
    /\ last = NoLast
    /\ ret = NoId
    /\ route = NoPass
    /\ parse = NoParse
    /\ disp = NoDispatch
    /\ calendar = <<>>
    /\ main = NoMain
    /\ watermark = 0 - 1
    /\ now = 0

\* InsertRows on a table whose name column is not UNIQUE: the row always goes in.
InsertRowsNoUnique(T, name, parent_name, summary) ==
    Append(T, [name |-> name,
               parent_id |-> IF Truthy(parent_name)
                             THEN get_topic_id(T, parent_name) ELSE NoId,
               summary |-> summary])

\* The rows of topics after insert_topic's INSERT: the parent is resolved only
\* when parent_name is truthy and names a topic (else NULL); a row whose name
\* is taken violates UNIQUE (IntegrityError) and nothing is inserted.
InsertRows(T, name, parent_name, summary) ==
    LET parent_id == IF Truthy(parent_name)
                     THEN get_topic_id(T, parent_name) ELSE NoId
    IN  IF \E i \in TopicIds(T) : T[i].name = name
        THEN T
        ELSE Append(T, [name |-> name, parent_id |-> parent_id,
                        summary |-> summary])

\* insert_topic that wants its parent: a parent_name that names no topic makes
\* it return without inserting.
insert_topic_parent_required(name, parent_name, summary) ==
    LET id == get_topic_id(topics, name)
        skip == Truthy(parent_name) /\ get_topic_id(topics, parent_name) = NoId
        T2 == IF skip THEN topics
              ELSE InsertRows(topics, name, parent_name, summary)
    IN  /\ topics' = T2
        /\ activity' = activity
        /\ last' = [op |-> "insert_topic",
                    path |-> IF Len(T2) = Len(topics) THEN "exists" ELSE "inserted"]
        /\ ret' = IF Len(T2) = Len(topics) THEN id ELSE Len(T2)

\* insert_topic written as INSERT OR REPLACE: an existing row takes the new
\* parent and summary.
insert_topic_replace(name, parent_name, summary) ==
    LET id == get_topic_id(topics, name)
        parent_id == IF Truthy(parent_name)
                     THEN get_topic_id(topics, parent_name) ELSE NoId
        row == [name |-> name, parent_id |-> parent_id, summary |-> summary]
    IN  /\ topics' = IF id = NoId THEN Append(topics, row)
                     ELSE [topics EXCEPT ![id] = row]
        /\ activity' = activity
        /\ last' = [op |-> "insert_topic",
                    path |-> IF id # NoId THEN "exists" ELSE "inserted"]
        /\ ret' = IF id # NoId THEN id ELSE Len(topics) + 1

insert_topic(name, parent_name, summary) ==
    LET T2 == InsertRows(topics, name, parent_name, summary)
    IN  /\ topics' = T2
        /\ activity' = activity
        /\ last' = [op |-> "insert_topic",
                    path |-> IF Len(T2) = Len(topics) THEN "exists" ELSE "inserted"]
        /\ ret' = IF Len(T2) = Len(topics)
                  THEN get_topic_id(topics, name) ELSE Len(T2)

\* insert_topic(name, parent_name=..., summary=..., display_name=...), the call
\* route_all makes: def insert_topic(name, parent_name=None, summary=None) has
\* no display_name parameter, so binding the arguments raises TypeError and
\* the body never runs, whatever display_name is (None included).
insert_topic_display_name(name, parent_name, summary, display_name) ==
    /\ topics' = topics
    /\ activity' = activity
    /\ last' = [op |-> "insert_topic", path |-> "TypeError"]
    /\ ret' = NoId

\* rename_topic without the check that new_name is free.
rename_topic_unchecked(old_name, new_name) ==
    /\ IF get_topic_id(topics, old_name) = NoId
       THEN /\ topics' = topics
            /\ last' = [op |-> "rename_topic", path |-> "old_absent"]
       ELSE /\ topics' = [i \in TopicIds(topics) |->
                            IF topics[i].name = old_name
                            THEN [topics[i] EXCEPT !.name = new_name]
                            ELSE topics[i]]
            /\ last' = [op |-> "rename_topic", path |-> "renamed"]
    /\ activity' = activity
    /\ ret' = NoId

rename_topic(old_name, new_name) ==
    /\ IF get_topic_id(topics, old_name) = NoId
       THEN /\ topics' = topics
            /\ last' = [op |-> "rename_topic", path |-> "old_absent"]
       ELSE IF get_topic_id(topics, new_name) # NoId
       THEN /\ topics' = topics
            /\ last' = [op |-> "rename_topic", path |-> "new_taken"]
       ELSE /\ topics' = [i \in TopicIds(topics) |->
                            IF topics[i].name = old_name
                            THEN [topics[i] EXCEPT !.name = new_name]
                            ELSE topics[i]]
            /\ last' = [op |-> "rename_topic", path |-> "renamed"]
    /\ activity' = activity
    /\ ret' = NoId

\* move_topic without the early return for a parent that does not exist: the
\* topic goes to the root.
move_topic_unchecked(name, new_parent_name) ==
    /\ IF get_topic_id(topics, name) = NoId
       THEN /\ topics' = topics
            /\ last' = [op |-> "move_topic", path |-> "absent"]
       ELSE LET new_parent_id == IF Truthy(new_parent_name)
                                 THEN get_topic_id(topics, new_parent_name)
                                 ELSE NoId
            IN  /\ topics' = [i \in TopicIds(topics) |->
                                IF topics[i].name = name
                                THEN [topics[i] EXCEPT !.parent_id = new_parent_id]
                                ELSE topics[i]]
                /\ last' = [op |-> "move_topic", path |-> "moved"]
    /\ activity' = activity
    /\ ret' = NoId

move_topic(name, new_parent_name) ==
    /\ IF get_topic_id(topics, name) = NoId
       THEN /\ topics' = topics
            /\ last' = [op |-> "move_topic", path |-> "absent"]
       ELSE IF Truthy(new_parent_name)
               /\ get_topic_id(topics, new_parent_name) = NoId
       THEN /\ topics' = topics
            /\ last' = [op |-> "move_topic", path |-> "parent_absent"]
       ELSE LET new_parent_id == IF Truthy(new_parent_name)
                                 THEN get_topic_id(topics, new_parent_name)
                                 ELSE NoId
            IN  /\ topics' = [i \in TopicIds(topics) |->
                                IF topics[i].name = name
                                THEN [topics[i] EXCEPT !.parent_id = new_parent_id]
                                ELSE topics[i]]
                /\ last' = [op |-> "move_topic", path |-> "moved"]
    /\ activity' = activity
    /\ ret' = NoId

update_topic_summary(name, summary) ==
    /\ topics' = [i \in TopicIds(topics) |->
                    IF topics[i].name = name
                    THEN [topics[i] EXCEPT !.summary = summary]
                    ELSE topics[i]]
    /\ activity' = activity
    /\ last' = [op |-> "update_topic_summary", path |-> "updated"]
    /\ ret' = NoId

\* record_activity without the insert_topic call: the row of an unknown slug
\* is owned by no topic.
record_activity_no_create(topic_name, source, context, activity_date) ==
    /\ topics' = topics
    /\ activity' = Append(activity,
            [topic_id |-> get_topic_id(topics, topic_name), source |-> source,
             context |-> context,
             timestamp |-> IF activity_date = NoDate THEN 0 ELSE activity_date])
    /\ last' = [op |-> "record_activity",
                path |-> IF get_topic_id(topics, topic_name) = NoId
                         THEN "created" ELSE "existing"]
    /\ ret' = NoId

\* get_topic_id, then insert_topic(topic_name) when it found nothing, then the
\* INSERT INTO activity (the timestamp column defaults to now: age 0).
record_activity(topic_name, source, context, activity_date) ==
    LET found == get_topic_id(topics, topic_name)
        T2 == IF found = NoId
              THEN InsertRows(topics, topic_name, None, None)
              ELSE topics
        topic_id == IF found # NoId THEN found
                    ELSE IF Len(T2) = Len(topics)
                         THEN get_topic_id(topics, topic_name) ELSE Len(T2)
    IN  /\ topics' = T2
        /\ activity' = Append(activity,
                [topic_id |-> topic_id, source |-> source, context |-> context,
                 timestamp |-> IF activity_date = NoDate THEN 0 ELSE activity_date])
        /\ last' = [op |-> "record_activity",
                    path |-> IF found = NoId THEN "created" ELSE "existing"]
        /\ ret' = NoId

(* ------------------------------ read helpers --------------------------- *)

\* The position of a slug in BINARY collation order.
Rank(name) == CHOOSE k \in 1..Len(SlugOrder) : SlugOrder[k] = name

\* ORDER BY t.name alone.
RowBeforeByName(T, i, j) ==
    \/ Rank(T[i].name) < Rank(T[j].name)
    \/ T[i].name = T[j].name /\ i < j

\* ORDER BY t.parent_id NULLS FIRST, t.name: row i sorts before row j (NoId is
\* below every id, so ascending parent_id puts NULL first; rows equal in both
\* keys, which UNIQUE excludes, are taken in rowid order).
RowBefore(T, i, j) ==
    \/ T[i].parent_id < T[j].parent_id
    \/ T[i].parent_id = T[j].parent_id /\ Rank(T[i].name) < Rank(T[j].name)
    \/ T[i].parent_id = T[j].parent_id /\ T[i].name = T[j].name /\ i < j

\* get_topic_tree: every row of topics LEFT JOINed with its parent's name, in
\* the ORDER BY order.
get_topic_tree(T) ==
    [k \in 1..Len(T) |->
        LET i == CHOOSE i \in TopicIds(T) :
                    Cardinality({j \in TopicIds(T) : RowBefore(T, j, i)}) = k - 1
        IN  [id |-> i, name |-> T[i].name, parent_id |-> T[i].parent_id,
             parent_name |-> IF T[i].parent_id = NoId THEN None
                             ELSE T[T[i].parent_id].name,
             summary |-> T[i].summary]]

\* 0.5 ** (days / 14.0), for an age of whole half-lives.
Weight(days) == ScoreUnit \div (2 ^ (days \div HalfLife))

RECURSIVE OwnScoreFrom(_, _, _)
\* own_scores[tid] after the rows k.. of SELECT topic_id, timestamp FROM activity.
OwnScoreFrom(A, tid, k) ==
    IF k > Len(A) THEN 0
    ELSE (IF A[k].topic_id = tid THEN Weight(A[k].timestamp) ELSE 0)
            + OwnScoreFrom(A, tid, k + 1)

\* own_scores.get(tid, 0.0)
OwnScore(A, tid) == OwnScoreFrom(A, tid, 1)

\* children_of.get(tid, []): the ids whose parent_id is tid, in row order.
ChildrenOf(T, tid) ==
    SelectSeq([i \in 1..Len(T) |-> i], LAMBDA c : T[c].parent_id = tid)

\* The depth of nested _accumulate calls at which the interpreter raises
\* RecursionError: above the depth of every forest the bounds allow.
RecursionLimit == MaxTopics + MaxScoreTopics + MaxTreeTopics

RECURSIVE Accumulate(_, _, _, _, _)
RECURSIVE AccumulateChildren(_, _, _, _, _, _, _)
\* The for loop of _accumulate without child_sum += total_scores[cid].
AccumulateChildrenNoSum(T, A, kids, k, child_sum, depth, r) ==
    IF k > Len(kids) \/ r.err THEN [r |-> r, child_sum |-> 0]
    ELSE LET r2 == Accumulate(T, A, kids[k], depth + 1, r)
         IN  AccumulateChildren(T, A, kids, k + 1, 0, depth, r2)

\* The for loop of _accumulate from child k on: each child is accumulated,
\* then its total is added to child_sum.
AccumulateChildren(T, A, kids, k, child_sum, depth, r) ==
    IF k > Len(kids) \/ r.err THEN [r |-> r, child_sum |-> child_sum]
    ELSE LET r2 == Accumulate(T, A, kids[k], depth + 1, r)
         IN  IF r2.err THEN [r |-> r2, child_sum |-> child_sum]
             ELSE AccumulateChildren(T, A, kids, k + 1,
                        child_sum + r2.total[kids[k]], depth, r2)

\* _accumulate(tid) at call depth depth, on the scores r computed so far:
\* r.total and r.done are total_scores, r.order lists the assignments to it,
\* r.err says RecursionError was raised.
Accumulate(T, A, tid, depth, r) ==
    IF r.err THEN r
    ELSE IF depth > RecursionLimit THEN [r EXCEPT !.err = TRUE]
    ELSE LET after == AccumulateChildren(T, A, ChildrenOf(T, tid), 1, 0, depth, r)
         IN  IF after.r.err THEN after.r
             ELSE [after.r EXCEPT
                      !.total[tid] = OwnScore(A, tid) + after.child_sum,
                      !.done = @ \cup {tid},
                      !.order = Append(@, tid)]

RECURSIVE AccumulateAll(_, _, _, _, _)
\* for tid in all_ids[k..]: _accumulate(tid) when it is not in total_scores
\* and (roots_only: when its parent is None).
AccumulateAll(T, A, k, roots_only, r) ==
    IF k > Len(T) \/ r.err THEN r
    ELSE AccumulateAll(T, A, k + 1, roots_only,
            IF (roots_only => T[k].parent_id = NoId) /\ k \notin r.done
            THEN Accumulate(T, A, k, 1, r)
            ELSE r)

\* compute_decay_scores: the roots first, then whatever no root reached.
compute_decay_scores(T, A) ==
    LET r0 == [total |-> [i \in TopicIds(T) |-> 0], done |-> {},
               order |-> <<>>, err |-> FALSE]
    IN  AccumulateAll(T, A, 1, FALSE, AccumulateAll(T, A, 1, TRUE, r0))

\* id_to_score.get(id, 0.0)
ScoreGet(scores, id) == IF id \in DOMAIN scores THEN scores[id] ELSE 0

\* by_parent.get(parent_id, []): the rows under parent_id, in list order.
ByParent(rows, parent_id) == SelectSeq(rows, LAMBDA t : t.parent_id = parent_id)

\* One line of the routing view: the indent, the slug and the summary shown
\* (None for a line that is the bare slug).
RoutingLine(t, scores, threshold, indent) ==
    [indent |-> indent, name |-> t.name,
     summary |-> IF ScoreGet(scores, t.id) >= threshold /\ Truthy(t.summary)
                 THEN t.summary ELSE None]

RECURSIVE RenderRouting(_, _, _, _, _, _)
\* _render(parent_id, indent) from the k-th row under parent_id on: the row's
\* line, then the lines of its subtree, then the next row.
RenderRouting(rows, scores, threshold, parent_id, indent, k) ==
    LET kids == ByParent(rows, parent_id)
    IN  IF k > Len(kids) THEN <<>>
        ELSE <<RoutingLine(kids[k], scores, threshold, indent)>>
                \o RenderRouting(rows, scores, threshold, kids[k].id, indent + 1, 1)
                \o RenderRouting(rows, scores, threshold, parent_id, indent, k + 1)

NoTopicsYet == <<[indent |-> 0, name |-> "(no topics yet)", summary |-> None]>>

\* format_topic_tree_for_routing(topics, scores, threshold): the lines joined
\* by "\n".
format_topic_tree_for_routing(rows, scores, threshold) ==
    IF rows = <<>> THEN NoTopicsYet
    ELSE RenderRouting(rows, scores, threshold, NoId, 0, 1)

\* by_parent.get(None, []) put into include before _mark_active runs, left out.
RootIdsNone(rows) == {}

\* include after "for t in by_parent.get(None, []): include.add(t["id"])".
RootIds(rows) == {rows[k].id : k \in {k \in 1..Len(rows) : rows[k].parent_id = NoId}}

RECURSIVE MarkActive(_, _, _, _, _, _)
\* _mark_active(parent_id) from the k-th row under parent_id on, with the set
\* include as it stands: the row's subtree is marked first; a row that scores
\* at least the threshold or has an active child is added and the call
\* returns True at once, the rows after it unvisited; False after the last row.
MarkActive(rows, scores, threshold, parent_id, k, include) ==
    LET kids == ByParent(rows, parent_id)
    IN  IF k > Len(kids) THEN [include |-> include, active |-> FALSE]
        ELSE LET sub == MarkActive(rows, scores, threshold, kids[k].id, 1, include)
             IN  IF ScoreGet(scores, kids[k].id) >= threshold \/ sub.active
                 THEN [include |-> sub.include \cup {kids[k].id}, active |-> TRUE]
                 ELSE MarkActive(rows, scores, threshold, parent_id, k + 1,
                                 sub.include)

\* One line of the pruned-output view: the indent, the name and the summary
\* shown (None for a line without ": summary").
OutputLine(t, indent) ==
    [indent |-> indent, name |-> t.name,
     summary |-> IF Truthy(t.summary) THEN t.summary ELSE None]

RECURSIVE RenderOutput(_, _, _, _, _)
\* _render that prints every row, in include or not.
RenderOutputNoSkip(rows, include, parent_id, indent, k) ==
    LET kids == ByParent(rows, parent_id)
        all == {rows[j].id : j \in 1..Len(rows)}
    IN  IF k > Len(kids) THEN <<>>
        ELSE <<OutputLine(kids[k], indent)>>
                \o RenderOutput(rows, all, kids[k].id, indent + 1, 1)
                \o RenderOutput(rows, all, parent_id, indent, k + 1)

\* _render(parent_id, indent) of the pruned-output view from the k-th row under
\* parent_id on: a row outside include is skipped with its whole subtree.
RenderOutput(rows, include, parent_id, indent, k) ==
    LET kids == ByParent(rows, parent_id)
    IN  IF k > Len(kids) THEN <<>>
        ELSE IF kids[k].id \notin include
        THEN RenderOutput(rows, include, parent_id, indent, k + 1)
        ELSE <<OutputLine(kids[k], indent)>>
                \o RenderOutput(rows, include, kids[k].id, indent + 1, 1)
                \o RenderOutput(rows, include, parent_id, indent, k + 1)

\* format_topic_tree_for_output(topics, scores, threshold): the lines joined
\* by "\n".
format_topic_tree_for_output(rows, scores, threshold) ==
    IF rows = <<>> THEN NoTopicsYet
    ELSE RenderOutput(rows,
            MarkActive(rows, scores, threshold, NoId, 1, RootIds(rows)).include,
            NoId, 0, 1)

(* ----------------------------- call and return ------------------------- *)

Idle == call = NoCall /\ last = NoLast

\* The caller calls a helper with arguments drawn from calls.
Invoke(calls) ==
    /\ Idle
    /\ \E c \in calls : call' = c
    /\ UNCHANGED <<topics, activity, last, ret, route, others>>

\* The caller drops the result of the helper that returned.
Return ==
    /\ last # NoLast
    /\ last' = NoLast
    /\ ret' = NoId
    /\ UNCHANGED <<topics, activity, call, route, others>>

\* The called helper runs; a call that would grow a table beyond the bound of
\* the specification is not followed.
RunInsert(maxTopics) ==
    /\ call.op = "insert_topic"
    /\ insert_topic(call.name, call.parent_name, call.summary)
    /\ Len(topics') <= maxTopics
    /\ call' = NoCall
    /\ UNCHANGED <<route, others>>

RunInsertDisplayName ==
    /\ call.op = "insert_topic(display_name)"
    /\ insert_topic_display_name(call.name, call.parent_name, call.summary,
                                 call.display_name)
    /\ call' = NoCall
    /\ UNCHANGED <<route, others>>

RunRename ==
    /\ call.op = "rename_topic"
    /\ rename_topic(call.old_name, call.new_name)
    /\ call' = NoCall
    /\ UNCHANGED <<route, others>>

RunMove ==
    /\ call.op = "move_topic"
    /\ move_topic(call.name, call.new_parent_name)
    /\ call' = NoCall
    /\ UNCHANGED <<route, others>>

RunUpdateSummary ==
    /\ call.op = "update_topic_summary"
    /\ update_topic_summary(call.name, call.summary)
    /\ call' = NoCall
    /\ UNCHANGED <<route, others>>

RunRecordActivity(maxTopics, maxActivity) ==
    /\ call.op = "record_activity"
    /\ Len(activity) < maxActivity
    /\ record_activity(call.topic_name, call.source, call.context,
                       call.activity_date)
    /\ Len(topics') <= maxTopics
    /\ call' = NoCall
    /\ UNCHANGED <<route, others>>

\* A helper that only reads the store returns: the tables stay.
ReadOnly(op, path) ==
    /\ call.op = op
    /\ last' = [op |-> op, path |-> path]
    /\ ret' = NoId
    /\ call' = NoCall
    /\ UNCHANGED <<topics, activity, route, others>>

RunGetTopicTree == ReadOnly("get_topic_tree", "returned")

RunComputeDecayScores ==
    ReadOnly("compute_decay_scores",
             IF compute_decay_scores(topics, activity).err
             THEN "RecursionError" ELSE "returned")

\* route_all's reads: get_topic_tree, then format_topic_tree_for_routing on
\* its rows and a score mapping.
RunFormatRouting == ReadOnly("format_topic_tree_for_routing", "returned")

\* generate_topics_file's reads: get_topic_tree, then
\* format_topic_tree_for_output on its rows and a score mapping.
RunFormatOutput == ReadOnly("format_topic_tree_for_output", "returned")

InsertCalls(slugs, parents, summaries) ==
    [op : {"insert_topic"}, name : slugs, parent_name : parents,
     summary : summaries]

InsertDisplayNameCalls(slugs, parents, summaries) ==
    [op : {"insert_topic(display_name)"}, name : slugs, parent_name : parents,
     summary : summaries, display_name : DisplayNames]

RenameCalls(slugs) == [op : {"rename_topic"}, old_name : slugs, new_name : slugs]

MoveCalls(slugs, parents) ==
    [op : {"move_topic"}, name : slugs, new_parent_name : parents]

UpdateSummaryCalls(slugs, summaries) ==
    [op : {"update_topic_summary"}, name : slugs, summary : summaries]

RecordCalls(slugs, dates) ==
    [op : {"record_activity"}, topic_name : slugs, source : Sources,
     context : Contexts, activity_date : dates]

(* ------------------------------- route_all ----------------------------- *)

\* The slugs the store of SpecRoute and the oracle's responses draw from.
RouteSlugs == {"a", "b"}

\* A new_topics entry without the key "name".
NoKey == "<no key>"

\* The fields of the response that route_all reads, and "top" for the value
\* as a whole.
ResultFields == {"top", "renames", "moves", "existing_topics", "new_topics"}

\* The sequences over S of length at most n.
SeqsUpTo(S, n) == UNION {[1..m -> S] : m \in 0..n}

\* The "renames" objects {old: new} of at most n entries: no key twice.
RenameObjects(n) ==
    {q \in SeqsUpTo([old : RouteSlugs, new : RouteSlugs], n) :
        \A i, j \in 1..Len(q) : q[i].old = q[j].old => i = j}

\* The objects keyed by topic name, with entries from S, of at most n entries.
ObjectsUpTo(S, n) ==
    {q \in SeqsUpTo(S, n) : \A i, j \in 1..Len(q) : q[i].name = q[j].name => i = j}

\* The values a response can parse to: "renames" {old: new}, "moves"
\* {name: parent or null}, "existing_topics" {name: {updated_summary}} and
\* "new_topics" [{name?, parent, summary, display_name}], at most one of them
\* (or the whole value) of a shape other than the expected object or list.
Results ==
    {v \in [bad : {{}} \cup {{f} : f \in ResultFields},
            renames : RenameObjects(MaxRenames),
            moves : ObjectsUpTo([name : RouteSlugs, parent : RouteSlugs \cup {None}],
                                MaxEntries),
            existing_topics : ObjectsUpTo([name : RouteSlugs, summary : {"", "s"}],
                                          MaxEntries),
            new_topics : SeqsUpTo([name : RouteSlugs \cup {NoKey}, parent : {None},
                                   summary : {"s"}, display_name : DisplayNames],
                                  MaxEntries)] :
        /\ "renames" \in v.bad => v.renames = <<>>
        /\ "moves" \in v.bad => v.moves = <<>>
        /\ "existing_topics" \in v.bad => v.existing_topics = <<>>
        /\ "new_topics" \in v.bad => v.new_topics = <<>>
        /\ "top" \in v.bad => v = [EmptyResult EXCEPT !.bad = {"top"}]}

\* What one call of generate(prompt) and _parse_json(raw) comes to: generate
\* raises (non-zero exit: RuntimeError; timeout: TimeoutExpired), or returns
\* text that _parse_json rejects (JSONDecodeError) or parses to a value.
Responses ==
    [kind : {"RuntimeError", "TimeoutExpired", "JSONDecodeError"},
     value : {EmptyResult}]
        \cup [kind : {"parsed"}, value : Results]

\* The pass ends with the exception exc propagating out of route_all.
Raise(rt, exc) == [rt EXCEPT !.pc = "raised", !.exc = exc, !.at = rt.pc]

\* The pass ends with return count, result.
ReturnPass(rt, count, result) ==
    [rt EXCEPT !.pc = "returned", !.updated_count = count, !.returned = result]

\* The pass has called a helper of the store from the loop over field, with
\* the slug key, about the topic id; the helper took the path last'.path.
Called(rt, field, op, key, id) ==
    [rt EXCEPT !.calls = Append(@, [loop |-> field, op |-> op, key |-> key,
                                    id |-> id, path |-> last'.path])]

\* route_all with the loop over "moves" after the loop over "existing_topics".
NextLoopMovesLate(field) ==
    CASE field = "renames" -> "existing_topics"
      [] field = "existing_topics" -> "moves"
      [] field = "moves" -> "new_topics"
      [] field = "new_topics" -> "_log_topic_tree"

\* The statement that follows the loop over field in route_all.
NextLoop(field) ==
    CASE field = "renames" -> "moves"
      [] field = "moves" -> "existing_topics"
      [] field = "existing_topics" -> "new_topics"
      [] field = "new_topics" -> "_log_topic_tree"

\* route_all that retries for as long as the response does not parse.
OnResponseRetryAgain(rt, r) ==
    LET logged == [rt EXCEPT !.oracle = Append(@, [prompt |-> rt.prompt,
                                                   kind |-> r.kind])]
    IN  IF r.kind \in {"RuntimeError", "TimeoutExpired"} THEN Raise(logged, r.kind)
        ELSE IF r.kind = "JSONDecodeError"
        THEN IF rt.tries <= 1 THEN [logged EXCEPT !.tries = @ + 1]
             ELSE ReturnPass(logged, 0, EmptyResult)
        ELSE [logged EXCEPT !.parsed = TRUE, !.result = r.value,
                            !.pc = "renames", !.k = 1]

\* route_all that catches every exception of the oracle call like a parse
\* error.
OnResponseCatchAll(rt, r) ==
    LET logged == [rt EXCEPT !.oracle = Append(@, [prompt |-> rt.prompt,
                                                   kind |-> r.kind])]
    IN  IF r.kind \in {"RuntimeError", "TimeoutExpired", "JSONDecodeError"}
        THEN IF rt.tries = 0 THEN [logged EXCEPT !.tries = 1]
             ELSE ReturnPass(logged, 0, EmptyResult)
        ELSE [logged EXCEPT !.parsed = TRUE, !.result = r.value,
                            !.pc = "renames", !.k = 1]

\* raw = generate(prompt); result = _parse_json(raw), the first time
\* (rt.tries = 0) and in the handler of the first JSONDecodeError
\* (rt.tries = 1): an exception of generate is not caught; a parse error is
\* retried once with the same prompt and then ends the pass with 0, {}.
OnResponse(rt, r) ==
    LET logged == [rt EXCEPT !.oracle = Append(@, [prompt |-> rt.prompt,
                                                   kind |-> r.kind])]
    IN  IF r.kind \in {"RuntimeError", "TimeoutExpired"} THEN Raise(logged, r.kind)
        ELSE IF r.kind = "JSONDecodeError"
        THEN IF rt.tries = 0 THEN [logged EXCEPT !.tries = 1]
             ELSE ReturnPass(logged, 0, EmptyResult)
        ELSE [logged EXCEPT !.parsed = TRUE, !.result = r.value,
                            !.pc = "renames", !.k = 1]

\* A step of the pass that calls no helper of the store.
NoStoreCall == UNCHANGED <<topics, activity, call, last, ret>>

\* route_all(results, activity_date) up to the prompt: get_topic_tree; an
\* empty store ends the pass with 0, {}; compute_decay_scores (RecursionError
\* on a parent cycle); the routing view goes into the prompt.
RouteStart ==
    /\ Idle
    /\ route.pc = "idle"
    /\ UNCHANGED others
    /\ \E activity_date \in DateArgs :
          LET rows == get_topic_tree(topics)
              r == compute_decay_scores(topics, activity)
              rt == [NoPass EXCEPT !.activity_date = activity_date,
                                   !.topics0 = topics, !.activity0 = activity]
          IN  route' =
                IF rows = <<>> THEN ReturnPass(rt, 0, EmptyResult)
                ELSE IF r.err THEN Raise(rt, "RecursionError")
                ELSE [rt EXCEPT !.pc = "generate",
                                !.prompt = format_topic_tree_for_routing(
                                              rows, r.total, DECAY_THRESHOLD)]
    /\ NoStoreCall

\* The oracle is called and answers.
RouteGenerate ==
    /\ route.pc = "generate"
    /\ UNCHANGED others
    /\ \E r \in Responses : route' = OnResponse(route, r)
    /\ NoStoreCall

\* One round of "for old_name, new_name in result.get("renames", {}).items()":
\* AttributeError when result or the field has no get / items.
RouteRename ==
    /\ route.pc = "renames"
    /\ UNCHANGED others
    /\ IF route.result.bad \cap {"top", "renames"} # {}
       THEN route' = Raise(route, "AttributeError") /\ NoStoreCall
       ELSE IF route.k > Len(route.result.renames)
       THEN route' = [route EXCEPT !.pc = NextLoop("renames"), !.k = 1] /\ NoStoreCall
       ELSE LET e == route.result.renames[route.k]
            IN  /\ rename_topic(e.old, e.new)
                /\ route' = [Called(route, "renames", "rename_topic", e.new,
                                    get_topic_id(topics, e.old))
                                EXCEPT !.k = @ + 1]
                /\ call' = call

\* One round of "for topic_name, new_parent in result.get("moves", {}).items()".
RouteMove ==
    /\ route.pc = "moves"
    /\ UNCHANGED others
    /\ IF "moves" \in route.result.bad
       THEN route' = Raise(route, "AttributeError") /\ NoStoreCall
       ELSE IF route.k > Len(route.result.moves)
       THEN route' = [route EXCEPT !.pc = NextLoop("moves"), !.k = 1] /\ NoStoreCall
       ELSE LET e == route.result.moves[route.k]
            IN  /\ move_topic(e.name, e.parent)
                /\ route' = [Called(route, "moves", "move_topic", e.name,
                                    get_topic_id(topics, e.name))
                                EXCEPT !.k = @ + 1]
                /\ call' = call

\* One round of the loop over result.get("existing_topics", {}).items(), up to
\* record_activity(name, "all", note, activity_date); a non-empty summary is
\* written next, an empty one ends the round.
RouteExisting ==
    /\ route.pc = "existing_topics"
    /\ UNCHANGED others
    /\ IF "existing_topics" \in route.result.bad
       THEN route' = Raise(route, "AttributeError") /\ NoStoreCall
       ELSE IF route.k > Len(route.result.existing_topics)
       THEN route' = [route EXCEPT !.pc = NextLoop("existing_topics"), !.k = 1]
            /\ NoStoreCall
       ELSE LET e == route.result.existing_topics[route.k]
            IN  /\ record_activity(e.name, "all", "note", route.activity_date)
                /\ route' = [Called(route, "existing_topics", "record_activity",
                                    e.name, activity'[Len(activity')].topic_id)
                                EXCEPT !.pc = IF Truthy(e.summary)
                                              THEN "updated_summary"
                                              ELSE "existing_topics",
                                       !.k = IF Truthy(e.summary) THEN @ ELSE @ + 1]
                /\ call' = call

\* "if summary: update_topic_summary(name, summary); updated_count += 1".
RouteUpdateSummary ==
    /\ route.pc = "updated_summary"
    /\ UNCHANGED others
    /\ LET e == route.result.existing_topics[route.k]
       IN  /\ update_topic_summary(e.name, e.summary)
           /\ route' = [Called(route, "existing_topics", "update_topic_summary",
                               e.name, get_topic_id(topics, e.name))
                           EXCEPT !.pc = "existing_topics", !.k = @ + 1,
                                  !.updated_count = @ + 1]
           /\ call' = call

\* One round of "for topic in result.get("new_topics", [])": TypeError when the
\* field is no list; KeyError at topic["name"] when the entry has no name;
\* else insert_topic(name, parent_name=parent, summary=summary,
\* display_name=display_name), whose TypeError ends the pass before
\* record_activity and updated_count += 1 are reached.
RouteNewTopic ==
    /\ route.pc = "new_topics"
    /\ UNCHANGED others
    /\ IF "new_topics" \in route.result.bad
       THEN route' = Raise(route, "TypeError") /\ NoStoreCall
       ELSE IF route.k > Len(route.result.new_topics)
       THEN route' = [route EXCEPT !.pc = NextLoop("new_topics")] /\ NoStoreCall
       ELSE LET e == route.result.new_topics[route.k]
            IN  IF e.name = NoKey
                THEN route' = Raise(route, "KeyError") /\ NoStoreCall
                ELSE /\ insert_topic_display_name(e.name, e.parent, e.summary,
                                                  e.display_name)
                     /\ route' = Raise(Called(route, "new_topics", "insert_topic",
                                              e.name, ret'),
                                       last'.path)
                     /\ call' = call

\* _log_topic_tree() (it calls compute_decay_scores: RecursionError on a
\* parent cycle), then return updated_count, result.
RouteLogTree ==
    /\ route.pc = "_log_topic_tree"
    /\ UNCHANGED others
    /\ route' = IF compute_decay_scores(topics, activity).err
                THEN Raise(route, "RecursionError")
                ELSE ReturnPass(route, route.updated_count, route.result)
    /\ NoStoreCall

(* ------------------------------ _parse_json ---------------------------- *)

\* A response text is a sequence of pieces: the fence marker of three
\* backticks, the label json (a labelled fence is a Fence followed at once by
\* a Label), white space, prose, two JSON objects and the start of an object
\* that is cut off.
Fence == "<fence>"

Label == "json"

Space == " "

Prose == "Done."

Object1 == "{key: value}"

Object2 == "{a: 1}"

Broken == "{a: "

Objects == {Object1, Object2}

Pieces == {Fence, Label, Space, Prose, Broken} \cup Objects

\* The structure a JSON object parses to, as its set of key-value pairs.
StructureOf(piece) ==
    IF piece = Object1 THEN {<<"key", "value">>} ELSE {<<"a", "1">>}

\* text.strip()
Strip(s) ==
    LET inked == {i \in 1..Len(s) : s[i] # Space}
    IN  IF inked = {} THEN <<>>
        ELSE SubSeq(s, CHOOSE i \in inked : \A j \in inked : i <= j,
                       CHOOSE i \in inked : \A j \in inked : i >= j)

\* json.loads(s): white space around the value is skipped; the value is
\* returned when the rest is one whole JSON text, JSONDecodeError otherwise.
json_loads(s) ==
    LET t == Strip(s)
    IN  IF Len(t) = 1 /\ t[1] \in Objects
        THEN [raised |-> FALSE, value |-> StructureOf(t[1])]
        ELSE [raised |-> TRUE, value |-> {}]

\* The places of a labelled fence in s.
Labelled(s) == {i \in 1..(Len(s) - 1) : s[i] = Fence /\ s[i + 1] = Label}

\* The places of a fence in s.
Fences(s) == {i \in 1..Len(s) : s[i] = Fence}

\* s.split(labelled fence)[-1]
AfterLastLabelled(s) ==
    LET i == CHOOSE i \in Labelled(s) : \A j \in Labelled(s) : i >= j
    IN  SubSeq(s, i + 2, Len(s))

\* s.split(fence)[0]
BeforeFirstFence(s) ==
    IF Fences(s) = {} THEN s
    ELSE SubSeq(s, 1, (CHOOSE i \in Fences(s) : \A j \in Fences(s) : i <= j) - 1)

RECURSIVE SplitFences(_)
\* s.split(fence)
SplitFences(s) ==
    IF Fences(s) = {} THEN <<s>>
    ELSE LET i == CHOOSE i \in Fences(s) : \A j \in Fences(s) : i <= j
         IN  <<SubSeq(s, 1, i - 1)>> \o SplitFences(SubSeq(s, i + 1, Len(s)))

\* candidate.startswith("{")
StartsWithBrace(s) == s # <<>> /\ s[1] \in Objects \cup {Broken}

RECURSIVE ScanBlocks(_, _, _)
\* "for i in range(len(blocks) - 2, 0, -2)" from the index i (counted from 0):
\* the first candidate that starts with "{" goes to json.loads, whose result or
\* JSONDecodeError ends the function; after the loop the text is parsed.
ScanBlocks(blocks, i, text) ==
    IF i <= 0 THEN json_loads(text)
    ELSE LET candidate == Strip(blocks[i + 1])
         IN  IF StartsWithBrace(candidate) THEN json_loads(candidate)
             ELSE ScanBlocks(blocks, i - 2, text)

\* _parse_json without the branch of the labelled fence.
parse_json_unlabelled(raw) ==
    LET text == Strip(raw)
    IN  IF Fences(text) # {}
        THEN LET blocks == SplitFences(text)
             IN  ScanBlocks(blocks, Len(blocks) - 2, text)
        ELSE json_loads(text)

\* _parse_json(text): [raised, value]
parse_json(raw) ==
    LET text == Strip(raw)
    IN  IF Labelled(text) # {}
        THEN json_loads(Strip(BeforeFirstFence(AfterLastLabelled(text))))
        ELSE IF Fences(text) # {}
        THEN LET blocks == SplitFences(text)
             IN  ScanBlocks(blocks, Len(blocks) - 2, text)
        ELSE json_loads(text)

\* The response texts of SpecParse.
Texts == SeqsUpTo(Pieces, MaxPieces)

\* _parse_json is called on a response text.
ParseCall ==
    /\ parse.pc = "idle"
    /\ \E text \in Texts : parse' = [NoParse EXCEPT !.pc = "called", !.text = text]
    /\ UNCHANGED <<topics, activity, call, last, ret, route, disp, calendar, main,
                 watermark, now>>

\* _parse_json returns a value or raises JSONDecodeError.
ParseRun ==
    /\ parse.pc = "called"
    /\ LET r == parse_json(parse.text)
       IN  parse' = [parse EXCEPT !.pc = IF r.raised THEN "raised" ELSE "returned",
                                  !.raised = r.raised, !.value = r.value]
    /\ UNCHANGED <<topics, activity, call, last, ret, route, disp, calendar, main,
                 watermark, now>>

(* -------------------------------- dispatch ----------------------------- *)

\* The output_schema of an action: its keys in the order of the dict.
Schemas ==
    {<<>>, <<"scheduling">>, <<"scheduling", "notes">>, <<"notes", "scheduling">>}

\* _BUILTIN_HANDLERS: the names with a registered in-process handler.
BUILTIN_HANDLERS == {"auto-calendar"}

\* The action dicts load_actions can return: a built-in action has the handler
\* "builtin", an external one the path of its executable.
Actions ==
    [name : {"auto-calendar", "notify"}, handler : {"builtin", "/bin/handler"},
     output_schema : Schemas]

\* The built-in scheduling action, its output.json naming the one key.
AutoCalendar ==
    [name |-> "auto-calendar", handler |-> "builtin",
     output_schema |-> <<"scheduling">>]

\* An element of a flag list that is no dict.
NotADict == "<not a dict>"

\* flag.get("person", "") of the elements of a flag list.
Flags == [person : {"Craig", "Dana", "", NotADict}]

\* The values of a key of the oracle result.
FieldValues(flags) ==
    {Absent} \cup [present : {TRUE}, value : SeqsUpTo(flags, MaxFlags)]

\* The oracle results dispatch is given: the keys of the actions, and whether
\* the result has other keys (the fields route_all reads).
DispatchResults(flags) == [routing : BOOLEAN, fields : [Keys -> FieldValues(flags)]]

\* "if result" of a dict: it has some key.
TruthyResult(result) ==
    result.routing \/ \E key \in Keys : result.fields[key].present

\* How the run of an external handler ends: subprocess.run returns with the
\* exit status 0 or another, or raises (TimeoutExpired after 300 s, OSError
\* when the path cannot be run).
ExternalOutcomes == {"exit 0", "exit 1", "TimeoutExpired", "OSError"}

RECURSIVE CollectFlags(_, _, _)
\* "for key in action.get("output_schema", {}): if key in result and
\* result[key]: flags[key] = result[key]", from the n-th key on: the flags in
\* the order of the schema.
CollectFlags(schema, result, n) ==
    IF n > Len(schema) THEN <<>>
    ELSE LET field == result.fields[schema[n]]
             rest == CollectFlags(schema, result, n + 1)
         IN  IF field.present /\ field.value # <<>>
             THEN <<[key |-> schema[n], value |-> field.value]>> \o rest
             ELSE rest

RECURSIVE UniqueFlags(_, _, _)
\* The loop of process_schedule_flags that keeps the first flag of each
\* person: AttributeError at flag.get when an element is no dict.
UniqueFlags(flags, n, unique) ==
    IF n > Len(flags) THEN [raised |-> FALSE, flags |-> unique]
    ELSE IF flags[n].person = NotADict THEN [raised |-> TRUE, flags |-> <<>>]
    ELSE IF flags[n].person # ""
            /\ \A m \in 1..Len(unique) : unique[m].person # flags[n].person
    THEN UniqueFlags(flags, n + 1, Append(unique, flags[n]))
    ELSE UniqueFlags(flags, n + 1, unique)

\* An exception leaves the handler and, uncaught, dispatch.
RaiseIn(d, exc) == [d EXCEPT !.pc = "raised", !.exc = exc]

\* The handler of the action at d.i has been invoked.
Invoked(d, via, arg, stdin, outcome) ==
    [d EXCEPT !.log = Append(@, [i |-> d.i, name |-> d.actions[d.i].name,
                                 via |-> via, arg |-> arg, stdin |-> stdin,
                                 outcome |-> outcome])]

\* One round of "for action in actions" in dispatch, for the action at d.i: no
\* flags, the action is passed over; a registered built-in handler is called
\* with the value of the first flag (process_schedule_flags starts with its
\* loop over the flags); a built-in name without handler is warned about;
\* an external handler is run with the flags on its standard input, and
\* whatever its outcome the loop goes on.
dispatch_action(d, outcome) ==
    LET action == d.actions[d.i]
        flags == CollectFlags(action.output_schema, d.result, 1)
    IN  IF flags = <<>> THEN [d EXCEPT !.i = @ + 1]
        ELSE IF action.handler = "builtin"
        THEN IF action.name \in BUILTIN_HANDLERS
             THEN LET u == UniqueFlags(flags[1].value, 1, <<>>)
                      called == Invoked(d, "builtin", flags[1].value, <<>>, "called")
                  IN  IF u.raised THEN RaiseIn(called, "AttributeError")
                      ELSE [called EXCEPT !.pc = "flags", !.flags = u.flags, !.j = 1]
             ELSE [d EXCEPT !.i = @ + 1]
        ELSE [Invoked(d, "external", <<>>, flags, outcome) EXCEPT !.i = @ + 1]

\* What dispatch leaves alone.
NotTheCalendar ==
    UNCHANGED <<topics, activity, call, last, ret, route, parse, main, watermark,
                now>>

\* run_pipeline after route_all: "if actions and result: dispatch(actions,
\* result)", with the actions load_actions returned and the result of the pass.
DispatchCall(actionLists, results) ==
    /\ disp.pc = "idle"
    /\ \E actions \in actionLists, result \in results :
          disp' = [NoDispatch EXCEPT
                      !.actions = actions, !.result = result, !.i = 1,
                      !.pc = IF actions # <<>> /\ TruthyResult(result)
                             THEN "action" ELSE "returned"]
    /\ calendar' = calendar
    /\ NotTheCalendar

\* The next action of the list, or the end of the list.
DispatchAction ==
    /\ disp.pc = "action"
    /\ IF disp.i > Len(disp.actions)
       THEN disp' = [disp EXCEPT !.pc = "returned"]
       ELSE \E outcome \in ExternalOutcomes : disp' = dispatch_action(disp, outcome)
    /\ calendar' = calendar
    /\ NotTheCalendar

(* ------------------------- the scheduling action ----------------------- *)

\* A title: HOLD_PREFIX a number of times, then a text that names a person.
\* An event of that title is a hold when the title starts with the prefix.
Titles(holds, people) == [holds : holds, about : people]

\* event.get("title") of an event without title.
NoTitle == [holds |-> 0, about |-> None]

\* hold_title = HOLD_PREFIX + title
AddPrefix(title) == [title EXCEPT !.holds = @ + 1]

\* hold_title.replace(HOLD_PREFIX, "", 1)
RemovePrefix(title) == [title EXCEPT !.holds = IF @ > 0 THEN @ - 1 ELSE 0]

\* summary.startswith(HOLD_PREFIX)
IsHold(title) == title.holds > 0

\* tools/calendar --add title --start start: a new event, created now.
CalendarAdd(cal, title, start) ==
    Append(cal, [title |-> title, start |-> start, created |-> "new",
                 live |-> TRUE])

\* tools/calendar --patch title --new-title new_title
CalendarPatch(cal, title, new_title) ==
    [n \in 1..Len(cal) |->
        IF cal[n].live /\ cal[n].title = title
        THEN [cal[n] EXCEPT !.title = new_title] ELSE cal[n]]

\* tools/calendar --delete title
CalendarDelete(cal, title) ==
    [n \in 1..Len(cal) |->
        IF cal[n].live /\ cal[n].title = title
        THEN [cal[n] EXCEPT !.live = FALSE] ELSE cal[n]]

\* _fetch_events(now, until): the places of the events on the calendar (every
\* event of the model starts inside the windows the scheduling action asks
\* for).
fetch_events(cal) == {n \in 1..Len(cal) : cal[n].live}

\* The events the validation call can name: an action, a title or none, a
\* start (within the hour, later) or none.
ValidationEvents(holds, people) ==
    [action : {"create", "hold", "confirm_hold", "delete"},
     title : Titles(holds, people) \cup {NoTitle},
     start : {None, "soon", "later"}]

\* What one call of generate(prompt) and _parse_json(raw) in
\* validate_and_create comes to: generate raises, the text does not parse, or
\* it parses to an object with a list of events.
Validations(events) ==
    [kind : {"RuntimeError", "TimeoutExpired", "JSONDecodeError"}, events : {<<>>}]
        \cup [kind : {"parsed"}, events : SeqsUpTo(events, MaxReplyEvents)]

\* One round of "for event in result.get("events", [])" for the flagged
\* person: the command the event comes to, run on the calendar.
apply_event(cal, person, event) ==
    LET title == event.title
        hold_title == IF IsHold(title) THEN title ELSE AddPrefix(title)
        existing_holds ==
            {n \in fetch_events(cal) :
                IsHold(cal[n].title) /\ cal[n].title.about = person}
    IN  IF title = NoTitle THEN cal
        ELSE IF event.action = "create"
        THEN IF event.start = None THEN cal
             ELSE CalendarAdd(cal, title, event.start)
        ELSE IF event.action = "hold"
        THEN IF event.start = None \/ existing_holds # {} THEN cal
             ELSE CalendarAdd(cal, AddPrefix(title), event.start)
        ELSE IF event.action = "confirm_hold"
        THEN CalendarPatch(cal, hold_title, RemovePrefix(hold_title))
        ELSE IF event.action = "delete"
        THEN CalendarDelete(cal, title)
        ELSE cal

RECURSIVE ExpireFrom(_, _, _)
\* The loop "for hold in holds" of _expire_holds over the events fetched at
\* its start, from the n-th on: a hold older than HOLD_EXPIRY_DAYS or
\* starting within HOLD_EXPIRY_HOURS_BEFORE_START is deleted by its title.
ExpireFrom(events, cal, n) ==
    IF n > Len(events) THEN cal
    ELSE LET hold == events[n]
         IN  IF hold.live /\ IsHold(hold.title)
                /\ (hold.created = "old" \/ hold.start = "soon")
             THEN ExpireFrom(events, CalendarDelete(cal, hold.title), n + 1)
             ELSE ExpireFrom(events, cal, n + 1)

\* _expire_holds()
expire_holds(cal) == ExpireFrom(cal, cal, 1)

\* raw = generate(prompt); result = _parse_json(raw) in validate_and_create,
\* the first time (d.tries = 0) and in the handler of the first
\* JSONDecodeError (d.tries = 1): an exception of generate is not caught; a
\* text that does not parse twice ends the call with []; the events of a
\* parsed result are gone through.
OnValidation(d, r) ==
    IF r.kind \in {"RuntimeError", "TimeoutExpired"} THEN RaiseIn(d, r.kind)
    ELSE IF r.kind = "JSONDecodeError"
    THEN IF d.tries = 0 THEN [d EXCEPT !.tries = 1]
         ELSE [d EXCEPT !.pc = "flags", !.j = @ + 1]
    ELSE [d EXCEPT !.pc = "events", !.events = r.events, !.k = 1]

\* One round of "for flag in unique_flags" in process_schedule_flags, up to
\* the prompt of validate_and_create: without texts, or without a thread of
\* the person, the call returns []; after the last flag comes _expire_holds.
ScheduleFlag ==
    /\ disp.pc = "flags"
    /\ IF disp.j > Len(disp.flags)
       THEN disp' = [disp EXCEPT !.pc = "expire"]
       ELSE \E thread \in BOOLEAN :
               disp' = IF thread THEN [disp EXCEPT !.pc = "validate", !.tries = 0]
                       ELSE [disp EXCEPT !.j = @ + 1]
    /\ calendar' = calendar
    /\ NotTheCalendar

\* The validation call of validate_and_create answers.
ValidateGenerate(validations) ==
    /\ disp.pc = "validate"
    /\ \E r \in validations : disp' = OnValidation(disp, r)
    /\ calendar' = calendar
    /\ NotTheCalendar

\* The next event of the validated result, or the end of validate_and_create.
\* An event that would grow the calendar beyond the bound of the
\* specification is not followed.
ApplyEvent(maxEvents) ==
    /\ disp.pc = "events"
    /\ IF disp.k > Len(disp.events)
       THEN /\ disp' = [disp EXCEPT !.pc = "flags", !.j = @ + 1]
            /\ calendar' = calendar
       ELSE /\ disp' = [disp EXCEPT !.k = @ + 1]
            /\ calendar' = apply_event(calendar, disp.flags[disp.j].person,
                                       disp.events[disp.k])
            /\ Len(calendar') <= maxEvents
    /\ NotTheCalendar

\* _expire_holds() at the end of process_schedule_flags, which returns to
\* dispatch.
ExpireHolds ==
    /\ disp.pc = "expire"
    /\ calendar' = expire_holds(calendar)
    /\ disp' = [disp EXCEPT !.pc = "action", !.i = @ + 1, !.expiries = @ + 1]
    /\ NotTheCalendar

\* The run of the pipeline is over; the next run starts with new frames.
DispatchEnd ==
    /\ disp.pc \in {"returned", "raised"}
    /\ disp' = NoDispatch
    /\ calendar' = calendar
    /\ NotTheCalendar

\* Between two runs time passes: a hold gets older than HOLD_EXPIRY_DAYS, or
\* the start of an event comes within HOLD_EXPIRY_HOURS_BEFORE_START.
TimePasses ==
    /\ disp.pc = "idle"
    /\ \E n \in fetch_events(calendar) :
          \/ /\ calendar[n].created = "new"
             /\ calendar' = [calendar EXCEPT ![n].created = "old"]
          \/ /\ calendar[n].start = "later"
             /\ calendar' = [calendar EXCEPT ![n].start = "soon"]
    /\ disp' = disp
    /\ NotTheCalendar

(* ---------------------------------- main ------------------------------- *)

\* load_watermark() returns None: the file does not exist.
NoWatermark == 0 - 1

\* The values of --date: not given, or the day that starts at time 0.  Times
\* are counted in days; the local time load_watermark returns and the UTC
\* time save_watermark writes name the same instant.
DateOptions == {NoDate, 0}

\* The lists load_actions returns in the runs of SpecMain.
MainActions == {<<>>, <<AutoCalendar>>}

\* The result route_all handed back, as dispatch reads it: {} when the pass
\* returned 0, {}; else the keys route_all read and, or not, a scheduling key.
MainResults(rt) ==
    IF ~rt.parsed THEN {NoResult}
    ELSE {r \in DispatchResults({[person |-> "Craig"]}) :
            /\ r.routing = (rt.returned # EmptyResult)
            /\ r.fields["notes"] = Absent}

\* The validation calls of the runs of SpecMain name no event.
MainValidations == Validations({})

\* An exception leaves main from the statement at.
MainRaise(mn, exc, at) == [mn EXCEPT !.pc = "raised", !.exc = exc, !.at = at]

\* The frames of route_all and dispatch are those of no call.
FramesIdle == route.pc = "idle" /\ disp.pc = "idle" /\ Idle

\* What the beginning of main leaves alone.
MainOnly ==
    UNCHANGED <<topics, activity, call, last, ret, route, parse, disp, calendar>>

\* main up to the call of run_pipeline: the arguments are parsed; --date
\* gives the window of that day, else the window starts at the watermark, or
\* a day ago when load_watermark returns None, and ends now.
MainStart ==
    /\ main.pc = "idle"
    /\ FramesIdle
    /\ now < MaxRuns
    /\ now' = now + 1
    /\ \E dry_run \in BOOLEAN, date \in DateOptions :
          main' = [NoMain EXCEPT
                      !.pc = "collect_all", !.dry_run = dry_run, !.date = date,
                      !.loaded = IF date # NoDate THEN NoWatermark ELSE watermark,
                      !.since = IF date # NoDate THEN date
                                ELSE IF watermark # NoWatermark THEN watermark
                                ELSE now' - 1,
                      !.until = IF date # NoDate THEN date + 1 ELSE now']
    /\ watermark' = watermark
    /\ MainOnly

\* run_pipeline up to route_all: collect_all finds nothing (return 0), or
\* --dry-run prints what it found (return 0), or load_actions is called and
\* route_all is next.
MainCollect ==
    /\ main.pc = "collect_all"
    /\ \E results \in BOOLEAN, actions \in MainActions :
          main' = IF ~results \/ main.dry_run
                  THEN [main EXCEPT !.pc = "generate_topics_file"]
                  ELSE [main EXCEPT !.pc = "route_all", !.actions = actions]
    /\ UNCHANGED <<watermark, now>>
    /\ MainOnly

\* route_all(results, activity_date=since_dt, actions=actions): the pass, with
\* a datetime as its activity_date and at most MaxMainRenames renames in the
\* oracle's response.
MainRoute ==
    /\ main.pc = "route_all"
    /\ \/ RouteStart /\ route'.activity_date # NoDate
       \/ RouteGenerate /\ Len(route'.result.renames) <= MaxMainRenames
       \/ RouteRename
       \/ RouteMove
       \/ RouteExisting
       \/ RouteUpdateSummary
       \/ RouteNewTopic
       \/ RouteLogTree

\* run_pipeline after route_all: an exception of the pass leaves run_pipeline
\* and main; else "if actions and result: dispatch(actions, result)".
MainRouted ==
    /\ main.pc = "route_all"
    /\ route.pc \in {"returned", "raised"}
    /\ IF route.pc = "raised"
       THEN /\ main' = MainRaise(main, route.exc, "route_all")
            /\ disp' = disp
       ELSE /\ main' = [main EXCEPT !.pc = "dispatch"]
            /\ \E result \in MainResults(route) :
                  disp' = [NoDispatch EXCEPT
                              !.actions = main.actions, !.result = result, !.i = 1,
                              !.pc = IF main.actions # <<>> /\ TruthyResult(result)
                                     THEN "action" ELSE "returned"]
    /\ UNCHANGED <<topics, activity, call, last, ret, route, parse, calendar,
                   watermark, now>>

\* dispatch(actions, result) and the scheduling action under it.
MainDispatch ==
    /\ main.pc = "dispatch"
    /\ \/ DispatchAction
       \/ ScheduleFlag
       \/ ValidateGenerate(MainValidations)
       \/ ApplyEvent(MaxReplyEvents)
       \/ ExpireHolds

\* run_pipeline returns total_updates, or the exception of a handler leaves
\* run_pipeline and main.
MainDispatched ==
    /\ main.pc = "dispatch"
    /\ disp.pc \in {"returned", "raised"}
    /\ main' = IF disp.pc = "raised" THEN MainRaise(main, disp.exc, "dispatch")
               ELSE [main EXCEPT !.pc = "generate_topics_file"]
    /\ UNCHANGED <<watermark, now>>
    /\ MainOnly

\* "if not parsed.dry_run: generate_topics_file()": get_topic_tree and
\* compute_decay_scores (RecursionError on a parent cycle), then TOPICS.md is
\* written.
MainGenerateTopicsFile ==
    /\ main.pc = "generate_topics_file"
    /\ main' = IF main.dry_run THEN [main EXCEPT !.pc = "save_watermark"]
               ELSE IF compute_decay_scores(topics, activity).err
               THEN MainRaise(main, "RecursionError", "generate_topics_file")
               ELSE [main EXCEPT !.pc = "save_watermark"]
    /\ UNCHANGED <<watermark, now>>
    /\ MainOnly

\* "if not parsed.dry_run and not parsed.date: save_watermark()", then the
\* tree is printed and the log of the run written.
MainSaveWatermark ==
    /\ main.pc = "save_watermark"
    /\ watermark' = IF ~main.dry_run /\ main.date = NoDate THEN now ELSE watermark
    /\ main' = [main EXCEPT !.pc = "done"]
    /\ now' = now
    /\ MainOnly

\* The process of the run is gone; the store, the calendar and the watermark
\* file stay for the next run.
MainEnd ==
    /\ main.pc \in {"done", "raised"}
    /\ main' = NoMain
    /\ route' = NoPass
    /\ disp' = NoDispatch
    /\ UNCHANGED <<topics, activity, call, last, ret, parse, calendar, watermark,
                   now>>

(* ---------------------------- specifications --------------------------- *)

\* The store helpers, with the summaries the pipeline writes.
Calls ==
    InsertCalls(Slugs, ParentArgs, Summaries) \cup RenameCalls(Slugs)
        \cup MoveCalls(Slugs, ParentArgs) \cup UpdateSummaryCalls(Slugs, Summaries)
        \cup RecordCalls(Slugs, {NoDate})
        \cup {[op |-> "format_topic_tree_for_routing"]}

Next ==
    \/ Invoke(Calls)
    \/ RunInsert(MaxTopics)
    \/ RunRename
    \/ RunMove
    \/ RunUpdateSummary
    \/ RunRecordActivity(MaxTopics, MaxActivity)
    \/ RunFormatRouting
    \/ Return

Spec == Init /\ [][Next]_vars

\* The helpers that shape the tree and date the activity, and the scoring.
ScoreCalls ==
    InsertCalls(Slugs, ParentArgs, {None}) \cup RenameCalls(Slugs)
        \cup MoveCalls(Slugs, ParentArgs) \cup RecordCalls(Slugs, DateArgs)
        \cup {[op |-> "compute_decay_scores"]}

ScoreNext ==
    \/ Invoke(ScoreCalls)
    \/ RunInsert(MaxScoreTopics)
    \/ RunRename
    \/ RunMove
    \/ RunRecordActivity(MaxScoreTopics, MaxScoreActivity)
    \/ RunComputeDecayScores
    \/ Return

SpecScores == Init /\ [][ScoreNext]_vars

\* The helpers that shape the tree, over more slugs, the flat list and the
\* pruned-output view.
TreeCalls ==
    InsertCalls(TreeSlugs, TreeParentArgs, {None}) \cup RenameCalls(TreeSlugs)
        \cup MoveCalls(TreeSlugs, TreeParentArgs)
        \cup {[op |-> "get_topic_tree"], [op |-> "format_topic_tree_for_output"]}

TreeNext ==
    \/ Invoke(TreeCalls)
    \/ RunInsert(MaxTreeTopics)
    \/ RunRename
    \/ RunMove
    \/ RunGetTopicTree
    \/ RunFormatOutput
    \/ Return

SpecTree == Init /\ [][TreeNext]_vars

\* Trees grown by insert_topic alone, with and without a display_name, large
\* enough for three siblings under a
\* root, and the pruned-output view.
OutputCalls ==
    InsertCalls(TreeSlugs, TreeParentArgs, {None})
        \cup InsertDisplayNameCalls(TreeSlugs, TreeParentArgs, {None})
        \cup {[op |-> "format_topic_tree_for_output"]}

OutputNext ==
    \/ Invoke(OutputCalls)
    \/ RunInsert(MaxOutputTopics)
    \/ RunInsertDisplayName
    \/ RunFormatOutput
    \/ Return

SpecOutput == Init /\ [][OutputNext]_vars

\* One reconciliation pass over a store seeded by insert_topic and move_topic.
RouteSeedCalls ==
    InsertCalls(RouteSlugs, RouteSlugs \cup {None}, {None})
        \cup MoveCalls(RouteSlugs, RouteSlugs \cup {None})

\* Before route_all is called the store is seeded, one helper call at a time.
RouteSeed == route.pc = "idle" /\ Invoke(RouteSeedCalls)

RouteSeedReturn == route.pc = "idle" /\ Return

RouteNext ==
    \/ RouteSeed
    \/ RunInsert(MaxRouteTopics)
    \/ RunMove
    \/ RouteSeedReturn
    \/ RouteStart
    \/ RouteGenerate
    \/ RouteRename
    \/ RouteMove
    \/ RouteExisting
    \/ RouteUpdateSummary
    \/ RouteNewTopic
    \/ RouteLogTree

SpecRoute == Init /\ [][RouteNext]_vars

\* _parse_json on every response text of at most MaxPieces pieces.
ParseNext ==
    \/ ParseCall
    \/ ParseRun

SpecParse == Init /\ [][ParseNext]_vars

\* One run of dispatch over every list of at most MaxActions actions, with a
\* validation call that names at most one hold.
DispatchValidations ==
    Validations({[action |-> "hold", title |-> [holds |-> 0, about |-> "Craig"],
                  start |-> "later"]})

DispatchNext ==
    \/ DispatchCall(SeqsUpTo(Actions, MaxActions), DispatchResults(Flags))
    \/ DispatchAction
    \/ ScheduleFlag
    \/ ValidateGenerate(DispatchValidations)
    \/ ApplyEvent(MaxReplyEvents)
    \/ ExpireHolds

SpecDispatch == Init /\ [][DispatchNext]_vars

\* Runs of the pipeline with the scheduling action alone, one after the
\* other on the same calendar.
CalendarResults == DispatchResults({[person |-> "Craig"]})

CalendarValidations ==
    Validations(ValidationEvents(0..MaxPrefixes, {"Craig"}))

CalendarNext ==
    \/ DispatchCall({<<AutoCalendar>>}, CalendarResults)
    \/ DispatchAction
    \/ ScheduleFlag
    \/ ValidateGenerate(CalendarValidations)
    \/ ApplyEvent(MaxCalendarEvents)
    \/ ExpireHolds
    \/ DispatchEnd
    \/ TimePasses

SpecCalendar == Init /\ [][CalendarNext]_vars

\* Runs of main, one after the other, over a store seeded between the runs.
MainSeedCalls ==
    InsertCalls({"a"}, {None}, {None}) \cup MoveCalls({"a"}, {"a", None})

MainSeed == main.pc = "idle" /\ FramesIdle /\ Invoke(MainSeedCalls)

MainSeedReturn == main.pc = "idle" /\ route.pc = "idle" /\ Return

MainNext ==
    \/ MainSeed
    \/ RunInsert(MaxRouteTopics)
    \/ RunMove
    \/ MainSeedReturn
    \/ MainStart
    \/ MainCollect
    \/ MainRoute
    \/ MainRouted
    \/ MainDispatch
    \/ MainDispatched
    \/ MainGenerateTopicsFile
    \/ MainSaveWatermark
    \/ MainEnd

SpecMain == Init /\ [][MainNext]_vars

(* --------------------- vocabulary of the properties -------------------- *)

\* Some topic of T has slug s.
HasSlug(T, s) == \E i \in TopicIds(T) : T[i].name = s

\* The id slug s resolves to in T (NoId when it resolves to nothing).
IdOf(T, s) == IF HasSlug(T, s) THEN CHOOSE i \in TopicIds(T) : T[i].name = s ELSE NoId

RECURSIVE ReachesRoot(_, _, _)
\* Following parent_id from topic i reaches a root in at most fuel steps.
ReachesRoot(T, i, fuel) ==
    IF T[i].parent_id = NoId THEN TRUE
    ELSE IF fuel = 0 THEN FALSE
    ELSE ReachesRoot(T, T[i].parent_id, fuel - 1)

Acyclic(T) == \A i \in TopicIds(T) : ReachesRoot(T, i, Len(T))

StoreUnchanged == topics' = topics /\ activity' = activity

RECURSIVE SumOver(_, _)
\* The sum of f over the set S.
SumOver(S, f) ==
    IF S = {} THEN 0
    ELSE LET x == CHOOSE x \in S : TRUE IN f[x] + SumOver(S \ {x}, f)

\* The position of x in a sequence that holds it once.
PosIn(seq, x) == CHOOSE k \in 1..Len(seq) : seq[k] = x

\* How often x occurs in seq.
CountIn(seq, x) == Cardinality({k \in 1..Len(seq) : seq[k] = x})

\* The sum of the decay weights of topic t's own activity rows.
OwnScoreOf(t) ==
    SumOver({k \in 1..Len(activity) : activity[k].topic_id = t},
            [k \in 1..Len(activity) |-> Weight(activity[k].timestamp)])

ChildrenSet(T, t) == {c \in TopicIds(T) : T[c].parent_id = t}

RECURSIVE UnderOrSelf(_, _, _, _)
\* Topic u is t or a descendant of t (within fuel parent steps).
UnderOrSelf(T, t, u, fuel) ==
    IF u = t THEN TRUE
    ELSE IF T[u].parent_id = NoId \/ fuel = 0 THEN FALSE
    ELSE UnderOrSelf(T, t, T[u].parent_id, fuel - 1)

\* Score mappings over some of the ids: below, at and above the threshold.
ScoreMaps(T) ==
    UNION {[S -> {0, DECAY_THRESHOLD - 1, DECAY_THRESHOLD, ScoreUnit}] :
                S \in SUBSET TopicIds(T)}

(* ------------------------------ properties ----------------------------- *)

\* C1: in every state reachable from the empty store by insert_topic,
\* rename_topic, move_topic, record_activity and update_topic_summary with any
\* slugs (strings, the empty string included), no two topics share a slug.
C1_UniqueSlugs ==
    \A i, j \in TopicIds(topics) : topics[i].name = topics[j].name => i = j

\* A full store on which the last call tried to take a slug that was taken.
C1_Witness ==
    /\ Len(topics) = MaxTopics
    /\ last.path \in {"exists", "new_taken"}
    /\ last.op \in {"insert_topic", "rename_topic"}

\* C2: insert_topic on a slug that exists returns the existing id, adds no
\* topic and leaves every row (parent_id and summary included) as it was,
\* whatever parent and summary are passed; and the id any insert_topic returns
\* is the id its slug resolves to afterwards, so a second call returns it again.
C2_InsertExisting ==
    [][call.op = "insert_topic" =>
            /\ ret' = IdOf(topics', call.name)
            /\ ret' # NoId
            /\ HasSlug(topics, call.name) =>
                  /\ StoreUnchanged
                  /\ ret' = IdOf(topics, call.name)]_vars

\* insert_topic has just returned the id of a topic that existed, in a store
\* where that topic has a parent and a summary to lose.
C2_Witness ==
    /\ last = [op |-> "insert_topic", path |-> "exists"]
    /\ ret \in TopicIds(topics)
    /\ topics[ret].parent_id # NoId
    /\ topics[ret].summary = "s"

\* What C3 says one rename_topic(o, n) does.
RenameEffect(o, n) ==
    IF ~HasSlug(topics, o) \/ HasSlug(topics, n)
    THEN StoreUnchanged
    ELSE LET id == IdOf(topics, o)
         IN  /\ activity' = activity
             /\ Len(topics') = Len(topics)
             /\ topics'[id] = [topics[id] EXCEPT !.name = n]
             /\ \A j \in TopicIds(topics) : j # id => topics'[j] = topics[j]
             /\ ~HasSlug(topics', o)
             /\ IdOf(topics', n) = id

\* C3: rename_topic(old, new) changes nothing when old names no topic or new
\* is taken; otherwise only the slug of that one topic changes (same id,
\* parent_id, summary, activity rows, children's parent_id), old resolves to
\* nothing and new resolves to the id old resolved to.
C3_Rename ==
    [][call.op = "rename_topic" => RenameEffect(call.old_name, call.new_name)]_vars

\* A topic that has a child and an activity row has just been renamed.
C3_Witness ==
    /\ last = [op |-> "rename_topic", path |-> "renamed"]
    /\ \E i, j \in TopicIds(topics) : i # j /\ topics[j].parent_id = i
    /\ activity # <<>>

\* What one move_topic(n, p) does when the arguments in toRoot ask for the root.
MoveEffect(n, p, toRoot) ==
    IF ~HasSlug(topics, n) \/ (p \notin toRoot /\ ~HasSlug(topics, p))
    THEN StoreUnchanged
    ELSE LET id == IdOf(topics, n)
             parent == IF p \in toRoot THEN NoId ELSE IdOf(topics, p)
         IN  /\ activity' = activity
             /\ Len(topics') = Len(topics)
             /\ topics'[id] = [topics[id] EXCEPT !.parent_id = parent]
             /\ \A j \in TopicIds(topics) : j # id => topics'[j] = topics[j]

\* C4 as stated: move_topic(slug, parent) changes nothing when slug names no
\* topic or parent is non-null and names no topic; otherwise it sets only that
\* topic's parent_id, to the id of the topic named parent, or to null when
\* parent is null.
C4_MoveAsStated ==
    [][call.op = "move_topic" =>
            MoveEffect(call.name, call.new_parent_name, {None})]_vars

\* C4 as amended: the same with "null" read as "null or the empty string":
\* an empty parent moves the topic to the root, whether or not a topic has
\* the empty slug.
C4_Move ==
    [][call.op = "move_topic" =>
            MoveEffect(call.name, call.new_parent_name, {None, ""})]_vars

\* A topic has just been moved under another one, in a store with activity.
C4_Witness ==
    /\ last = [op |-> "move_topic", path |-> "moved"]
    /\ \E i, j \in TopicIds(topics) : i # j /\ topics[j].parent_id = i
    /\ activity # <<>>

\* C5: in every reachable state the parent relation has no cycle: following
\* parent_id from any topic reaches a root, and no topic is its own parent.
C5_NoCycle ==
    /\ Acyclic(topics)
    /\ \A i \in TopicIds(topics) : topics[i].parent_id # i

\* Every topic of T is in rows exactly once.
OnceEach(rows, T) ==
    /\ Len(rows) = Len(T)
    /\ \A i \in TopicIds(T) : Cardinality({k \in 1..Len(rows) : rows[k].id = i}) = 1

\* C6 as stated: the list get_topic_tree returns holds every topic exactly
\* once and every non-root topic later than its parent.  It is stated of the
\* acyclic stores alone: where a topic is its own ancestor no order does that.
C6_ParentFirstAsStated ==
    (last.op = "get_topic_tree" /\ Acyclic(topics)) =>
        LET rows == get_topic_tree(topics)
        IN  /\ OnceEach(rows, topics)
            /\ \A k \in 1..Len(rows) :
                  rows[k].parent_id # NoId =>
                      \E k2 \in 1..(k - 1) : rows[k2].id = rows[k].parent_id

\* C6 as amended: the list holds every topic exactly once and every root
\* before every non-root, so a topic is later than its parent whenever that
\* parent is a root.
C6_RootsFirst ==
    last.op = "get_topic_tree" =>
        LET rows == get_topic_tree(topics)
        IN  /\ OnceEach(rows, topics)
            /\ \A k, k2 \in 1..Len(rows) :
                  rows[k].parent_id = NoId /\ rows[k2].parent_id # NoId => k < k2
            /\ \A k, k2 \in 1..Len(rows) :
                  /\ rows[k].parent_id = NoId
                  /\ rows[k2].parent_id = rows[k].id
                  => k < k2

\* get_topic_tree has returned the list of an acyclic three-level tree in
\* which a grandchild comes before its parent.
C6_Witness ==
    /\ last.op = "get_topic_tree"
    /\ Acyclic(topics)
    /\ LET rows == get_topic_tree(topics)
       IN  \E k, k2 \in 1..Len(rows) :
              k < k2 /\ rows[k].parent_id = rows[k2].id

\* What C7 says one record_activity(n, source, context) does.
RecordEffect(n, s, c) ==
    /\ Len(activity') = Len(activity) + 1
    /\ \A k \in 1..Len(activity) : activity'[k] = activity[k]
    /\ LET row == activity'[Len(activity')]
       IN  /\ row.topic_id # NoId
           /\ row.topic_id = IdOf(topics', n)
           /\ row.source = s
           /\ row.context = c
    /\ IF HasSlug(topics, n)
       THEN topics' = topics
       ELSE topics' = Append(topics, [name |-> n, parent_id |-> NoId,
                                      summary |-> None])

\* C7: record_activity appends exactly one activity row owned by the topic
\* with that slug, creating that topic as a root without summary when the slug
\* is absent and adding no topic when it is present; no stored activity row
\* and no existing topic is changed or removed.
C7_RecordActivity ==
    [][call.op = "record_activity" =>
            RecordEffect(call.topic_name, call.source, call.context)]_vars

\* record_activity has just created its topic, beside an older topic and an
\* older activity row.
C7_Witness ==
    /\ last = [op |-> "record_activity", path |-> "created"]
    /\ Len(activity) = 2
    /\ Len(topics) = 2
    /\ activity[2].topic_id = 2

\* C8: on an acyclic store compute_decay_scores gives every topic its own
\* score plus the totals of its direct children; a topic with no activity in
\* its subtree scores 0, and a parent without activity of its own scores the
\* sum of its children's totals.
C8_Rollup ==
    (last.op = "compute_decay_scores" /\ Acyclic(topics)) =>
        LET r == compute_decay_scores(topics, activity)
        IN  /\ ~r.err
            /\ r.done = TopicIds(topics)
            /\ \A t \in TopicIds(topics) :
                  /\ r.total[t] = OwnScoreOf(t)
                                    + SumOver(ChildrenSet(topics, t), r.total)
                  /\ (\A u \in TopicIds(topics) :
                          UnderOrSelf(topics, t, u, Len(topics)) => OwnScoreOf(u) = 0)
                      => r.total[t] = 0
                  /\ OwnScoreOf(t) = 0
                      => r.total[t] = SumOver(ChildrenSet(topics, t), r.total)

\* The scores of a chain root > child > grandchild have been computed where
\* only the grandchild has activity, two rows of different ages.
C8_Witness ==
    /\ last.op = "compute_decay_scores"
    /\ Acyclic(topics)
    /\ \E a, b, c \in TopicIds(topics) :
          /\ topics[a].parent_id = NoId
          /\ topics[b].parent_id = a
          /\ topics[c].parent_id = b
          /\ OwnScoreOf(a) = 0 /\ OwnScoreOf(b) = 0
          /\ OwnScoreOf(c) = Weight(0) + Weight(HalfLife)
          /\ compute_decay_scores(topics, activity).total[a] = OwnScoreOf(c)

\* C9: on every reachable store compute_decay_scores terminates, computes
\* the score of every topic exactly once, and computes each parent after all
\* of its children.
C9_EachOnceChildrenFirst ==
    last.op = "compute_decay_scores" =>
        LET r == compute_decay_scores(topics, activity)
        IN  /\ ~r.err
            /\ \A t \in TopicIds(topics) : CountIn(r.order, t) = 1
            /\ \A c \in TopicIds(topics) :
                  topics[c].parent_id # NoId =>
                      PosIn(r.order, c) < PosIn(r.order, topics[c].parent_id)

\* C10: whatever the score mapping, the routing view has one line for every
\* topic of the store, and the line carries the topic's summary exactly when
\* its score is at least the threshold and its summary is non-empty.
C10_RoutingShowsAll ==
    last.op = "format_topic_tree_for_routing" =>
        \A scores \in ScoreMaps(topics) :
            LET lines == format_topic_tree_for_routing(
                            get_topic_tree(topics), scores, DECAY_THRESHOLD)
            IN  \A i \in TopicIds(topics) :
                    LET mine == {k \in 1..Len(lines) : lines[k].name = topics[i].name}
                    IN  /\ Cardinality(mine) = 1
                        /\ \A k \in mine :
                              lines[k].summary =
                                  IF ScoreGet(scores, i) >= DECAY_THRESHOLD
                                     /\ topics[i].summary \notin {None, ""}
                                  THEN topics[i].summary ELSE None

\* The pruned-output view of the store under a score mapping.
OutputLines(scores) ==
    format_topic_tree_for_output(get_topic_tree(topics), scores, DECAY_THRESHOLD)

\* Some line of the view shows the topic with slug name.
Shown(lines, name) == \E k \in 1..Len(lines) : lines[k].name = name

\* Some proper descendant of topic t scores at least the threshold.
HasActiveBelow(scores, t) ==
    \E u \in TopicIds(topics) :
        /\ u # t
        /\ UnderOrSelf(topics, t, u, Len(topics))
        /\ ScoreGet(scores, u) >= DECAY_THRESHOLD

\* C11: in the pruned-output view of an acyclic store every child that scores
\* at least the threshold appears, whatever its siblings score: of several
\* sibling topics at or above the threshold all are rendered, not only the
\* first.
C11_AllActiveSiblings ==
    (last.op = "format_topic_tree_for_output" /\ Acyclic(topics)) =>
        \A scores \in ScoreMaps(topics) :
            \A c \in TopicIds(topics) :
                (topics[c].parent_id # NoId /\ ScoreGet(scores, c) >= DECAY_THRESHOLD)
                    => Shown(OutputLines(scores), topics[c].name)

\* C12: in the pruned-output view of an acyclic store, under every score
\* mapping, a non-root topic whose own score is below the threshold is
\* rendered if and only if one of its descendants scores at least the
\* threshold.
C12_InactiveShownIffActiveBelow ==
    (last.op = "format_topic_tree_for_output" /\ Acyclic(topics)) =>
        \A scores \in ScoreMaps(topics) :
            \A t \in TopicIds(topics) :
                (topics[t].parent_id # NoId /\ ScoreGet(scores, t) < DECAY_THRESHOLD)
                    => (Shown(OutputLines(scores), topics[t].name)
                            <=> HasActiveBelow(scores, t))

ViewsOf(T) ==
    LET rows == get_topic_tree(T)
        scores == [i \in TopicIds(T) |-> ScoreUnit]
    IN  [output |-> format_topic_tree_for_output(rows, scores, DECAY_THRESHOLD),
         routing |-> format_topic_tree_for_routing(rows, scores, DECAY_THRESHOLD)]

\* C15: once insert_topic(n, display_name=d) has set the display_name d of a
\* new root topic n, the pruned-output view shows the topic by d and not by
\* its slug, and the routing view shows it by its slug and never by d; a root
\* topic inserted without a display_name is shown by its slug in both views.
C15_DisplayNameShown ==
    [][/\ (/\ call.op = "insert_topic(display_name)"
           /\ call.display_name # None
           /\ call.parent_name = None
           /\ ~HasSlug(topics, call.name))
          => /\ Shown(ViewsOf(topics').output, call.display_name)
             /\ ~Shown(ViewsOf(topics').output, call.name)
             /\ Shown(ViewsOf(topics').routing, call.name)
             /\ ~Shown(ViewsOf(topics').routing, call.display_name)
       /\ (/\ call.op = "insert_topic"
           /\ call.parent_name = None
           /\ ~HasSlug(topics, call.name))
          => /\ Shown(ViewsOf(topics').output, call.name)
             /\ Shown(ViewsOf(topics').routing, call.name)]_vars

\* The pass is over: route_all has returned or raised.
PassOver == route.pc \in {"returned", "raised"}

\* The store is as route_all found it.
StoreAsFound == topics = route.topics0 /\ activity = route.activity0

\* C16: in one pass over a non-empty store the oracle is called once when the
\* first response parses, twice with the same prompt when it does not parse,
\* and never more than twice; when both responses fail to parse the pass
\* returns 0 updates and an empty result and leaves both tables as they were.
C16_OracleCalls ==
    LET log == route.oracle
    IN  /\ Len(log) <= 2
        /\ Len(log) = 2 =>
              /\ log[1].kind = "JSONDecodeError"
              /\ log[2].prompt = log[1].prompt
        /\ (route.pc # "generate" /\ Len(log) >= 1 /\ log[1].kind = "parsed")
              => Len(log) = 1
        /\ (route.pc # "generate" /\ Len(log) >= 1 /\ log[1].kind = "JSONDecodeError")
              => Len(log) = 2
        /\ (Len(log) = 2 /\ log[2].kind = "JSONDecodeError") =>
              /\ route.pc = "returned"
              /\ route.updated_count = 0
              /\ route.returned = EmptyResult
              /\ route.calls = <<>>
              /\ StoreAsFound

\* A pass over a tree of two topics has returned after two responses that did
\* not parse.
C16_Witness ==
    /\ route.pc = "returned"
    /\ Len(topics) = 2
    /\ Len(route.oracle) = 2
    /\ route.oracle[2].kind = "JSONDecodeError"

\* C17: when a call of the oracle fails (non-zero exit or timeout), the first
\* call or the retry, route_all raises that failure to its caller and has
\* called no helper of the store: both tables are as the pass found them.
C17_OracleFailureFatal ==
    \A i \in 1..Len(route.oracle) :
        route.oracle[i].kind \in {"RuntimeError", "TimeoutExpired"} =>
            /\ route.pc = "raised"
            /\ route.exc = route.oracle[i].kind
            /\ route.calls = <<>>
            /\ StoreAsFound

\* The retry after a parse failure has timed out.
C17_Witness ==
    /\ route.pc = "raised"
    /\ topics # <<>>
    /\ Len(route.oracle) = 2
    /\ route.oracle[1].kind = "JSONDecodeError"
    /\ route.oracle[2].kind = "TimeoutExpired"

\* The place of a loop in the order renames, moves, existing-topic updates,
\* new-topic creations.
Phase(field) ==
    CASE field = "renames" -> 1
      [] field = "moves" -> 2
      [] field = "existing_topics" -> 3
      [] field = "new_topics" -> 4

\* The calls of one pass are in the fixed order, and every summary overwrite
\* directly follows the activity record of the same entry.
InFixedOrder(calls) ==
    /\ \A i, j \in 1..Len(calls) :
          i < j => Phase(calls[i].loop) <= Phase(calls[j].loop)
    /\ \A i \in 1..Len(calls) :
          /\ calls[i].op = "rename_topic" <=> calls[i].loop = "renames"
          /\ calls[i].op = "move_topic" <=> calls[i].loop = "moves"
          /\ calls[i].op \in {"record_activity", "update_topic_summary"}
                <=> calls[i].loop = "existing_topics"
          /\ calls[i].op = "update_topic_summary" =>
                /\ i > 1
                /\ calls[i - 1].op = "record_activity"
                /\ calls[i - 1].key = calls[i].key

\* An existing-topic update keyed by the new slug of the applied rename i
\* records its activity on the renamed topic and creates no topic.
UpdateFollowsRename(calls, i) ==
    \A j \in 1..Len(calls) :
        (calls[j].op = "record_activity" /\ calls[j].key = calls[i].key) =>
            /\ calls[j].path = "existing"
            /\ calls[j].id = calls[i].id

\* C18 as stated: the pass applies every rename before any move, every move
\* before any existing-topic update and every such update before any new-topic
\* creation; so an existing-topic update keyed by the new slug of a rename
\* applied in the same pass records its activity on the renamed topic (same
\* id) and creates no topic.
C18_FixedOrderAsStated ==
    /\ InFixedOrder(route.calls)
    /\ \A i \in 1..Len(route.calls) :
          (route.calls[i].op = "rename_topic" /\ route.calls[i].path = "renamed")
              => UpdateFollowsRename(route.calls, i)

\* C18 as amended: the same, for the new slug of an applied rename that no
\* later rename of the pass has renamed again.
C18_FixedOrder ==
    /\ InFixedOrder(route.calls)
    /\ \A i \in 1..Len(route.calls) :
          (/\ route.calls[i].op = "rename_topic"
           /\ route.calls[i].path = "renamed"
           /\ \A i2 \in (i + 1)..Len(route.calls) :
                 ~(/\ route.calls[i2].op = "rename_topic"
                   /\ route.calls[i2].path = "renamed"
                   /\ route.calls[i2].id = route.calls[i].id))
              => UpdateFollowsRename(route.calls, i)

\* A pass has returned that renamed a topic, moved a topic, recorded activity
\* under the new slug of the rename and overwrote the summary.
C18_Witness ==
    /\ route.pc = "returned"
    /\ Len(route.calls) = 4
    /\ route.calls[1].op = "rename_topic" /\ route.calls[1].path = "renamed"
    /\ route.calls[2].op = "move_topic" /\ route.calls[2].path = "moved"
    /\ route.calls[3].op = "record_activity"
    /\ route.calls[3].key = route.calls[1].key
    /\ route.calls[3].id = route.calls[1].id
    /\ route.calls[4].op = "update_topic_summary"
    /\ Len(topics) = Len(route.topics0)

\* C19: after a pass whose parsed response has a new_topics entry with name
\* n, a topic with slug n exists and owns an activity row written in that
\* pass, so its own score is greater than 0.  (Stated of the responses that
\* are of the expected shape throughout.)
C19_NewTopicHasActivity ==
    (/\ PassOver
     /\ route.parsed
     /\ route.result.bad = {}
     /\ \A k \in 1..Len(route.result.new_topics) :
           route.result.new_topics[k].name # NoKey)
        => \A k \in 1..Len(route.result.new_topics) :
              LET n == route.result.new_topics[k].name
              IN  /\ HasSlug(topics, n)
                  /\ \E a \in (Len(route.activity0) + 1)..Len(activity) :
                        activity[a].topic_id = IdOf(topics, n)
                  /\ OwnScore(activity, IdOf(topics, n)) > 0

\* C20: once a response has parsed, route_all does not stop part-way through
\* its mutations: malformed entries and entries about absent slugs are
\* skipped, so a pass that raises has either made all its calls or left the
\* store as it found it.  (Stated of the responses without a named new_topics
\* entry.)
C20_NoPartialPass ==
    (/\ route.pc = "raised"
     /\ route.parsed
     /\ \A k \in 1..Len(route.result.new_topics) :
           route.result.new_topics[k].name = NoKey)
        => \/ route.at = "_log_topic_tree"
           \/ StoreAsFound

\* The text is the object o in one fenced block, labelled json or not, with
\* white space or none around the object, and prose and white space, or
\* nothing, before and after the block.
Wrapped(text, o) ==
    \E i, j \in 1..Len(text) :
        /\ i < j
        /\ Fences(text) = {i, j}
        /\ \A k \in (1..(i - 1)) \cup ((j + 1)..Len(text)) :
              text[k] \in {Prose, Space}
        /\ LET inner == SubSeq(text, i + 1, j - 1)
               body == IF inner # <<>> /\ inner[1] = Label THEN Tail(inner)
                       ELSE inner
           IN  Strip(body) = <<o>>

\* C21: _parse_json of a JSON object wrapped in a fenced block, with or
\* without prose before and after the fence and white space around, returns
\* what parsing the bare JSON text returns; _parse_json of a text without any
\* parseable JSON raises the parse error and returns no value.
C21_FencedLikeBare ==
    parse.pc \in {"returned", "raised"} =>
        /\ \A o \in Objects :
              Wrapped(parse.text, o) =>
                  /\ parse.pc = "returned"
                  /\ ~json_loads(<<o>>).raised
                  /\ parse.value = json_loads(<<o>>).value
        /\ (\A k \in 1..Len(parse.text) : parse.text[k] \notin Objects) =>
              /\ parse.pc = "raised"
              /\ parse.value = {}

\* A labelled fenced block between prose has been parsed.
C21_Witness ==
    /\ parse.pc = "returned"
    /\ \E o \in Objects : Wrapped(parse.text, o)
    /\ Labelled(parse.text) # {}
    /\ parse.text[1] = Prose
    /\ parse.text[Len(parse.text)] = Prose

\* What the call of _parse_json came to.
ParseResult == [raised |-> parse.raised, value |-> parse.value]

\* The blocks that follow a labelled fence of text, each up to the next fence.
LabelledBlocks(text) ==
    {BeforeFirstFence(SubSeq(text, i + 2, Len(text))) : i \in Labelled(text)}

\* The fenced blocks of a text whose fences pair up, first to last: what
\* stands between the first and the second fence, the third and the fourth...
FencedBlocks(text) ==
    LET blocks == SplitFences(text)
    IN  [k \in 1..((Len(blocks) - 1) \div 2) |-> blocks[2 * k]]

\* C26: _parse_json parses the block of a fence labelled json when the
\* response has one; otherwise, when the response has unlabelled fenced
\* blocks, the result is the last of them that parses as JSON (an earlier
\* valid block when a later one does not parse); otherwise the trimmed raw
\* text is parsed.
C26_LastBlockThatParses ==
    parse.pc \in {"returned", "raised"} =>
        LET text == Strip(parse.text)
            fenced == FencedBlocks(text)
            valid == {k \in 1..Len(fenced) : ~json_loads(fenced[k]).raised}
        IN  /\ Labelled(text) # {} =>
                  \E b \in LabelledBlocks(text) : ParseResult = json_loads(b)
            /\ (Labelled(text) = {} /\ Cardinality(Fences(text)) % 2 = 0
                    /\ valid # {}) =>
                  ParseResult = json_loads(
                      fenced[CHOOSE k \in valid : \A j \in valid : k >= j])
            /\ Fences(text) = {} => ParseResult = json_loads(text)

\* The places in the output_schema of an action whose key is present in the
\* result with a non-empty value.
PresentKeys(action, result) ==
    {n \in 1..Len(action.output_schema) :
        /\ result.fields[action.output_schema[n]].present
        /\ result.fields[action.output_schema[n]].value # <<>>}

\* The action has a handler: an executable, or a registered function.
HasHandler(action) ==
    action.handler # "builtin" \/ action.name \in BUILTIN_HANDLERS

\* The invocations of the handler of the n-th action in the log of dispatch.
InvocationsOf(n) == {m \in 1..Len(disp.log) : disp.log[m].i = n}

\* The run of the pipeline is past its dispatch step.
DispatchOver == disp.pc \in {"returned", "raised"}

\* C22: dispatch invokes the handler of an action exactly when some key of
\* its output_schema is present in the result with a non-empty value, and
\* then once: a built-in handler with the value of the first such key in the
\* order of the schema, an external handler with exactly those keys and
\* their values on its standard input; an action without such a key is
\* skipped.
C22_HandlerIffFlags ==
    DispatchOver =>
        \A n \in 1..Len(disp.actions) :
            LET action == disp.actions[n]
                present == PresentKeys(action, disp.result)
                first == CHOOSE k \in present : \A j \in present : k <= j
            IN  /\ (InvocationsOf(n) # {}) <=> (present # {} /\ HasHandler(action))
                /\ Cardinality(InvocationsOf(n)) <= 1
                /\ \A m \in InvocationsOf(n) :
                      IF action.handler = "builtin"
                      THEN /\ disp.log[m].via = "builtin"
                           /\ disp.log[m].arg =
                                 disp.result.fields[action.output_schema[first]].value
                      ELSE /\ disp.log[m].via = "external"
                           /\ {<<disp.log[m].stdin[q].key, disp.log[m].stdin[q].value>> :
                                  q \in 1..Len(disp.log[m].stdin)}
                              = {<<action.output_schema[k],
                                   disp.result.fields[action.output_schema[k]].value>> :
                                    k \in present}
                           /\ Len(disp.log[m].stdin) = Cardinality(present)

\* The actions whose handler failed in the dispatch d: an external handler
\* that exited non-zero, timed out or could not be run, and the built-in
\* handler an exception came out of.
FailedActions(d) ==
    {d.log[m].i : m \in {q \in 1..Len(d.log) :
                            d.log[q].outcome \in {"exit 1", "TimeoutExpired", "OSError"}}}
        \cup (IF d.pc = "raised" THEN {d.i} ELSE {})

\* After a handler failed, the handler of every later action with fields
\* present has been invoked by the end of the dispatch d.
LaterHandlersInvoked(d) ==
    \A f \in FailedActions(d) : \A n \in (f + 1)..Len(d.actions) :
        (PresentKeys(d.actions[n], d.result) # {} /\ HasHandler(d.actions[n])) =>
            \E m \in 1..Len(d.log) : d.log[m].i = n

\* C23: the failure of the handler of one action (a built-in handler raises,
\* an external handler raises, exits non-zero or times out) is isolated to
\* that action: no exception leaves dispatch, the handler of every later
\* action whose fields are present is still invoked, and the topic store is
\* as the pass left it.
C23_FailureIsolated ==
    [][/\ disp'.pc # "raised"
       /\ disp'.pc \in {"returned", "raised"} => LaterHandlersInvoked(disp')
       /\ disp.pc # "idle" => StoreUnchanged]_vars

\* The built-in scheduling action is among the actions of the run.
SchedulingEnabled ==
    \E n \in 1..Len(disp.actions) :
        /\ disp.actions[n].name = "auto-calendar"
        /\ disp.actions[n].handler = "builtin"
        /\ \E k \in 1..Len(disp.actions[n].output_schema) :
              disp.actions[n].output_schema[k] = "scheduling"

\* C24: with the built-in scheduling action enabled, _expire_holds has run
\* in every pass that came to its end, also when the oracle result has no
\* scheduling flags (the key absent or its list empty).
C24_ExpiryEveryPass ==
    (disp.pc = "returned" /\ SchedulingEnabled /\ TruthyResult(disp.result)) =>
        disp.expiries >= 1

\* The state of the n-th event of the calendar cal: none before it is
\* created, hold while its title starts with the hold prefix, confirmed
\* otherwise, deleted at the end.
EventState(cal, n) ==
    IF n > Len(cal) THEN "none"
    ELSE IF ~cal[n].live THEN "deleted"
    ELSE IF IsHold(cal[n].title) THEN "hold"
    ELSE "confirmed"

\* The n-th event is created, renamed or deleted in the step.
EventChanged(n) ==
    \/ n > Len(calendar)
    \/ calendar'[n].title # calendar[n].title
    \/ calendar'[n].live # calendar[n].live

\* The changes of the state machine of the scheduling action.
AllowedChanges ==
    {<<"none", "hold">>, <<"none", "confirmed">>, <<"hold", "confirmed">>,
     <<"hold", "deleted">>, <<"confirmed", "deleted">>}

SummaryEntries ==
    {k \in 1..Len(route.result.existing_topics) :
        route.result.existing_topics[k].summary # ""}

\* The calls of the pass, out of the loop over new_topics, that created a topic.
CreatingEntries ==
    {c \in 1..Len(route.calls) :
        /\ route.calls[c].loop = "new_topics"
        /\ route.calls[c].path = "inserted"}

\* C27: a pass whose response parsed to the expected shape, and that gets to
\* the end of its mutations, returns as its count the number of
\* existing_topics entries with a non-empty summary plus the number of
\* new_topics entries that created a topic.
C27_CountReturned ==
    (/\ PassOver
     /\ route.parsed
     /\ route.result.bad = {}
     /\ \A k \in 1..Len(route.result.new_topics) :
           route.result.new_topics[k].name # NoKey
     /\ route.at # "_log_topic_tree")
        => /\ route.pc = "returned"
           /\ route.updated_count
                 = Cardinality(SummaryEntries) + Cardinality(CreatingEntries)

\* The activity rows written in the pass.
PassActivity == (Len(route.activity0) + 1)..Len(activity)

\* The calls of record_activity made from the loop over existing_topics.
ExistingCalls ==
    {c \in 1..Len(route.calls) :
        /\ route.calls[c].loop = "existing_topics"
        /\ route.calls[c].op = "record_activity"}

\* The renames the pass applied and no later rename of the pass undid.
StandingRenames ==
    {c \in 1..Len(route.calls) :
        /\ route.calls[c].op = "rename_topic"
        /\ route.calls[c].path = "renamed"
        /\ \A c2 \in (c + 1)..Len(route.calls) :
              ~(/\ route.calls[c2].op = "rename_topic"
                /\ route.calls[c2].path = "renamed"
                /\ route.calls[c2].id = route.calls[c].id)}

\* C28: an existing_topics entry is never skipped and never fails: after its
\* turn its slug names a topic that owns an activity row of the pass; when the
\* slug was absent at its turn (the old slug of a rename applied earlier in
\* the pass, for one) that topic is a new root, while the renamed topic keeps
\* its id under the new slug; a pass that returns has taken every entry.
C28_AbsentSlugCreatesRoot ==
    /\ \A c \in ExistingCalls :
          LET x == route.calls[c]
          IN  /\ HasSlug(topics, x.key)
              /\ IdOf(topics, x.key) = x.id
              /\ \E a \in PassActivity : activity[a].topic_id = x.id
              /\ x.path = "created" =>
                    /\ x.id > Len(route.topics0)
                    /\ topics[x.id].parent_id = NoId
    /\ \A c \in StandingRenames :
          LET x == route.calls[c]
          IN  /\ x.id \in 1..Len(route.topics0)
              /\ topics[x.id].name = x.key
    /\ (route.pc = "returned" /\ route.parsed) =>
          Cardinality(ExistingCalls) = Len(route.result.existing_topics)

\* A pass renamed a to b and then took the existing_topics entry a: the store
\* holds b under the id a had and a new root a that owns the activity.
C28_Witness ==
    /\ route.pc = "returned"
    /\ Len(route.calls) = 2
    /\ route.calls[1].op = "rename_topic" /\ route.calls[1].path = "renamed"
    /\ route.calls[1].key = "b"
    /\ route.calls[2].op = "record_activity" /\ route.calls[2].path = "created"
    /\ route.calls[2].key = "a"
    /\ route.topics0[route.calls[1].id].name = "a"
    /\ topics[route.calls[1].id].name = "b"
    /\ topics[route.calls[2].id].name = "a"
    /\ route.calls[2].id # route.calls[1].id
    /\ activity[Len(activity)].topic_id = route.calls[2].id

\* Every parent_id of T that is not null is the id of a topic of T.
ParentsExist(T) ==
    \A i \in TopicIds(T) : T[i].parent_id # NoId => T[i].parent_id \in TopicIds(T)

\* The pending call is insert_topic(name, parent_name=p) with name absent from
\* the store and p a non-empty string that names no topic.
InsertUnderAbsentParent ==
    /\ call.op = "insert_topic"
    /\ ~HasSlug(topics, call.name)
    /\ Truthy(call.parent_name)
    /\ ~HasSlug(topics, call.parent_name)

\* C29: insert_topic(name, parent_name=p) with name absent and p naming no
\* topic inserts the topic as a root and returns its id, and in every
\* reachable state every parent_id that is not null is the id of a topic of
\* the store.
C29_AbsentParentIsRoot ==
    /\ []ParentsExist(topics)
    /\ [][InsertUnderAbsentParent =>
            /\ Len(topics') = Len(topics) + 1
            /\ topics'[Len(topics')].name = call.name
            /\ topics'[Len(topics')].parent_id = NoId
            /\ \A i \in TopicIds(topics) : topics'[i] = topics[i]
            /\ ret' = Len(topics')
            /\ last' = [op |-> "insert_topic", path |-> "inserted"]]_vars

\* insert_topic is about to run with a parent that names no topic, in a store
\* where insert_topic or move_topic has stored a parent_id and that has room
\* for the new topic.
C29_Witness ==
    /\ InsertUnderAbsentParent
    /\ \E i \in TopicIds(topics) : topics[i].parent_id # NoId
    /\ Len(topics) < MaxTopics

\* The run of main is over: it got to its end or an exception left it.
RunOver == main.pc \in {"done", "raised"}

\* run_pipeline returned without raising in the run that is over.
RunPipelineReturned ==
    main.pc = "done" \/ (main.pc = "raised" /\ main.at = "generate_topics_file")

\* The oracle call of the pass raised.
OracleRaised ==
    /\ main.pc = "raised"
    /\ main.at = "route_all"
    /\ route.at = "generate"
    /\ route.exc \in {"RuntimeError", "TimeoutExpired"}

\* C30: a run with neither --dry-run nor --date starts its window at the
\* watermark when there is one; when run_pipeline returned without raising
\* (the pass abandoned after two unparseable responses included) the run
\* leaves the watermark at the current time, and when the oracle call raised
\* it leaves the watermark as it found it.
C30_WatermarkAdvanced ==
    (RunOver /\ ~main.dry_run /\ main.date = NoDate)
        => /\ main.loaded # NoWatermark => main.since = main.loaded
           /\ RunPipelineReturned => watermark = now
           /\ OracleRaised => watermark = main.loaded

====
